---- MODULE Spec2Model ----
(***************************************************************************)
(* Checkout across the order service and the product service of           *)
(* ecom-microservices-project: the stock-reservation ledger of the        *)
(* product service (crud.py, order_paid_consumer.py), the order state     *)
(* machine of the order service (order_router.py, payment_consumer.py)    *)
(* and the at-least-once bus between them (messaging.py).                 *)
(*                                                                         *)
(* The database is PostgreSQL at its default isolation level: a statement *)
(* sees the rows committed when it runs plus its own transaction's        *)
(* writes, SELECT ... FOR UPDATE and DELETE take row locks that are held   *)
(* until commit or rollback, and a statement that meets a locked row      *)
(* waits.  A transaction is therefore modelled by the steps at which it   *)
(* reads the clock, takes locks and commits.                              *)
(***************************************************************************)
EXTENDS Integers, Sequences, FiniteSets, TLC

\* ---------------------------------------------------------------- bounds
NumProducts == 2
NumOrders == 2
MaxStock == 2
MaxQty == 1
MaxItems == 2
MaxTicks == 2
MaxRedeliver == 1
NumUsers == 2
NumWorkers == 2
MaxEvents == 2
MaxCartQty == 2
MaxMessages == 2
MaxFaults == 2
ScenarioStock == 5
ScenarioQty == 2
MaxPrice == 2
MaxDeliveries == 3

\* ------------------------------------------------------ program constants
TTL_SECONDS == 60
BACKOFF_SECONDS == 3

\* The clock advances in steps of half a hold, so that a hold is seen
\* unexpired (now < expires_at), on its edge (now = expires_at) and past it.
TickSeconds == TTL_SECONDS \div 2

Products == 1..NumProducts
\* A request may name one id more than there are product rows.
ProductIds == 1..(NumProducts + 1)
OrderIds == 1..NumOrders
Users == 1..NumUsers
Workers == 1..NumWorkers

Item == [product_id : ProductIds, quantity : 1..MaxQty]
ItemLists == UNION {[1..n -> Item] : n \in 1..MaxItems}

EmptyMap == [p \in {} |-> 0]

Min(S) == CHOOSE x \in S : \A y \in S : x <= y

RECURSIVE SumQuantity(_)
SumQuantity(rows) ==
    IF rows = {} THEN 0
    ELSE LET r == CHOOSE x \in rows : TRUE
         IN r.quantity + SumQuantity(rows \ {r})

\* merged[pid] = merged.get(pid, 0) + qty, item by item
RECURSIVE merge_items(_, _)
merge_items(items, merged) ==
    IF items = <<>> THEN merged
    ELSE LET pid == Head(items).product_id
             old == IF pid \in DOMAIN merged THEN merged[pid] ELSE 0
         IN merge_items(Tail(items),
                [p \in DOMAIN merged \cup {pid} |->
                    IF p = pid THEN old + Head(items).quantity ELSE merged[p]])

\* The sum without its expires_at > now: expired holds count as well.
reserved_qty_any_age(rows, product_id, t, exclude_order_id) ==
    SumQuantity({r \in rows : /\ r.product_id = product_id
                              /\ (exclude_order_id = 0 \/ r.order_id # exclude_order_id)})

\* SELECT coalesce(sum(quantity), 0) WHERE product_id = .. AND expires_at > now
\* [AND order_id != exclude_order_id]; exclude_order_id = 0 stands for None.
reserved_qty_for_product(rows, product_id, t, exclude_order_id) ==
    SumQuantity({r \in rows : /\ r.product_id = product_id
                              /\ r.expires_at > t
                              /\ (exclude_order_id = 0 \/ r.order_id # exclude_order_id)})

VARIABLES
    now,            \* the wall clock, in seconds
    stock,          \* products.stock, by product id
    reservations,   \* the committed rows of stock_reservations
    tx,             \* by order: the ledger request in flight for that order
    cons,           \* the order.paid consumer thread of the product service
    orderPaidQ,     \* product-service.order.paid.q, oldest first
    redelivered,    \* deliveries the broker has repeated for want of an ack
    paid,           \* by order: order.paid has been published
    commits,        \* by order: how often its quantities left the stock
    orders,         \* the orders table, by id (ids are handed out in sequence)
    work,           \* by HTTP worker of the order service: its request in flight
    succ,           \* the payment.succeeded consumer thread
    fail,           \* the payment.failed consumer thread
    succeededQ,     \* order-service.payment.succeeded.q, oldest first
    failedQ,        \* order-service.payment.failed.q, oldest first
    intents,        \* orders a PaymentIntent has been created for
    events,         \* payment events the webhook has published
    broker,         \* the broker as one durable queue and its consumer see it
    link,           \* the consumer thread of that queue (messaging.py, _run)
    handled,        \* by message: the times _on_message was called with it
    faults,         \* connections lost so far
    published,      \* messages published so far
    order_items,    \* the rows of the order_items table, oldest first
    price           \* products.price, by product id, in cents

orderVars == <<orders, work, succ, fail, succeededQ, failedQ, intents, events>>
ledgerVars == <<stock, reservations, tx, cons, orderPaidQ, redelivered, paid, commits>>
busVars == <<broker, link, handled, faults, published>>
vars == <<now, ledgerVars, orderVars, busVars, order_items, price>>

NoResult == [kind |-> "none", product_id |-> 0, available |-> 0, requested |-> 0,
             released |-> 0, reserved_until |-> 0]
IdleTx == [op |-> "none", pc |-> "idle", now |-> 0, merged |-> EmptyMap, del |-> {},
           locked |-> {}, result |-> NoResult]
IdleCons == [pc |-> "idle", locked |-> {}]

\* The columns of an order a session has loaded; NULL is 0.
NoColumns == [status |-> "none", payment_status |-> FALSE, checkout_expires_at |-> 0]
\* A worker between requests keeps the answer of the last one where an
\* endpoint below records it: response, and with it user_id, order_id and
\* reserved_until.
IdleWork == [pc |-> "idle", user_id |-> 0, order_id |-> 0, product_id |-> 0,
             quantity |-> 0, items |-> EmptyMap, seen |-> NoColumns,
             reserved_until |-> 0, response |-> "none",
             prices |-> EmptyMap, total_amount |-> 0, seen_total |-> 0]
IdleHandler == [pc |-> "idle", seen |-> NoColumns]

\* The order service before any request.
InitOrders ==
    /\ orders = <<>>
    /\ order_items = <<>>
    /\ work = [w \in Workers |-> IdleWork]
    /\ succ = IdleHandler
    /\ fail = IdleHandler
    /\ succeededQ = <<>>
    /\ failedQ = <<>>
    /\ intents = {}
    /\ events = 0

\* The catalogue: every product has a price, a whole number of cents
\* (products.price is Numeric(10, 2)).
InitCatalogue == price = [p \in Products |-> p]

\* A broker that has never seen the queue, and the consumer thread just
\* started: start_consumer_in_thread has returned, _run is about to connect.
MessageIds == 1..MaxMessages
NoMessage == [id |-> 0, body |-> "none"]
InitBus ==
    /\ broker = [up |-> TRUE, declared |-> FALSE, ready |-> <<>>, unacked |-> <<>>]
    /\ link = [pc |-> "connect", alive |-> FALSE, left |-> 0, msg |-> NoMessage]
    /\ handled = [m \in MessageIds |-> 0]
    /\ faults = 0
    /\ published = 0

Init ==
    /\ now = 0
    /\ stock = [p \in Products |-> MaxStock]
    /\ reservations = {}
    /\ tx = [c \in OrderIds |-> IdleTx]
    /\ cons = IdleCons
    /\ orderPaidQ = <<>>
    /\ redelivered = 0
    /\ paid = [o \in OrderIds |-> FALSE]
    /\ commits = [o \in OrderIds |-> 0]
    /\ InitOrders
    /\ InitBus
    /\ InitCatalogue

Tick ==
    /\ now < MaxTicks * TickSeconds
    /\ now' = now + TickSeconds
    /\ UNCHANGED <<price, order_items, busVars, stock, reservations, tx, cons, orderPaidQ, redelivered, paid, commits, orderVars>>

\* ------------------------------------------------------------ row locks
\* Reservation rows another transaction has deleted and not yet committed.
RowsLockedByOthers(c) ==
    UNION {tx[d].del : d \in OrderIds \ {c}}

\* The product query without with_for_update(): nobody ever waits.
ProductNeverLocked(c, pid) == FALSE

\* products FOR UPDATE: the row lock of a product held by another transaction
ProductLockedByOthers(c, pid) ==
    \/ \E d \in OrderIds \ {c} : pid \in tx[d].locked
    \/ c # 0 /\ pid \in cons.locked

\* ------------------------------------------------- create_reservations
\* Only the expired rows are cleared; the order's own rows stay.
rows_cleared_expired_only(rows, t, order_id) ==
    {r \in rows : r.expires_at <= t}

\* Only the order's own rows are cleared; expired rows of others stay.
rows_cleared_own_only(rows, t, order_id) ==
    {r \in rows : r.order_id = order_id}

\* the two DELETE statements that open create_reservations
rows_cleared_by_reserve(rows, t, order_id) ==
    {r \in rows : r.expires_at <= t \/ r.order_id = order_id}

\* The whole stock taken for available, whatever is held.
available_ignoring_holds(stk, rows, pid, t, order_id) == stk[pid]

\* available = product.stock - reserved_qty (other orders' unexpired holds)
available_stock(stk, rows, pid, t, order_id) ==
    stk[pid] - reserved_qty_for_product(rows, pid, t, order_id)

\* one StockReservation per merged product, expires_at = reserved_until.
\* The table is a multiset: copy tells apart rows that agree in every column.
new_reservations(existing, order_id, merged, reserved_until) ==
    LET same(p) == {r \in existing : /\ r.order_id = order_id
                                     /\ r.product_id = p
                                     /\ r.quantity = merged[p]
                                     /\ r.expires_at = reserved_until}
        copy(p) == IF same(p) = {} THEN 1
                   ELSE 1 + (CHOOSE n \in {r.copy : r \in same(p)} :
                                \A r \in same(p) : r.copy <= n)
    IN {[order_id |-> order_id, product_id |-> p, quantity |-> merged[p],
         expires_at |-> reserved_until, copy |-> copy(p)] : p \in DOMAIN merged}

\* POST /products/reservations for order c: the clock is read and the
\* expired rows and the order's own rows are deleted (uncommitted, flushed).
\* A DELETE that meets a row another transaction has deleted waits for it.
ReserveStart(c, items) ==
    /\ tx[c].pc \in {"idle", "done"}
    /\ ~paid[c]
    /\ LET gone == rows_cleared_by_reserve(reservations, now, c)
       IN /\ gone \cap RowsLockedByOthers(c) = {}
          /\ tx' = [tx EXCEPT ![c] = [IdleTx EXCEPT !.op = "reserve", !.pc = "lock",
                                          !.now = now, !.del = gone,
                                          !.merged = merge_items(items, EmptyMap)]]
    /\ UNCHANGED <<price, order_items, busVars, now, stock, reservations, cons, orderPaidQ, redelivered, paid, commits, orderVars>>

\* The rollback gives back the expired rows and not the order's own.
ReserveFailsDroppingHold(c, result) ==
    /\ tx' = [tx EXCEPT ![c] = [IdleTx EXCEPT !.op = "reserve", !.pc = "done",
                                               !.result = result]]
    /\ reservations' = reservations \ {r \in tx[c].del : r.order_id = c}

\* The failure path without db.rollback(): what was deleted stays deleted.
ReserveFailsCommitting(c, result) ==
    /\ tx' = [tx EXCEPT ![c] = [IdleTx EXCEPT !.op = "reserve", !.pc = "done",
                                               !.result = result]]
    /\ reservations' = reservations \ tx[c].del

\* raise ValueError -> db.rollback(): deletes undone, locks released.
ReserveFails(c, result) ==
    /\ tx' = [tx EXCEPT ![c] = [IdleTx EXCEPT !.op = "reserve", !.pc = "done",
                                               !.result = result]]
    /\ UNCHANGED reservations

\* raise ValueError(f"product_not_found:{pid}"): the fields between the colons
product_not_found(pid) == <<"product_not_found", pid>>

\* raise ValueError(f"insufficient_available_stock:{pid}:{available}:{qty}")
insufficient_available_stock(pid, available, qty) ==
    <<"insufficient_available_stock", pid, available, qty>>

\* Every ValueError answered with the message alone as the detail.
detail_is_message(msg) == [NoResult EXCEPT !.kind = "bad_request"]

\* except ValueError in reserve_stock_for_checkout: the message is split at
\* its colons and answered as 400 insufficient_stock with product_id,
\* available and requested, as 404 product_not_found with product_id, or,
\* for any other message, as 400 with the message as the detail.
error_detail(msg) ==
    IF msg[1] = "insufficient_available_stock"
    THEN [NoResult EXCEPT !.kind = "insufficient_stock", !.product_id = msg[2],
                          !.available = msg[3], !.requested = msg[4]]
    ELSE IF msg[1] = "product_not_found"
         THEN [NoResult EXCEPT !.kind = "product_not_found", !.product_id = msg[2]]
         ELSE [NoResult EXCEPT !.kind = "bad_request"]

\* The loop taking the products from the highest id down.
highest_first(merged, locked) ==
    CHOOSE p \in DOMAIN merged \ locked : \A q \in DOMAIN merged \ locked : q <= p

\* for pid, qty in sorted(merged.items()): the product the loop turns to
next_product(merged, locked) == Min(DOMAIN merged \ locked)

\* One round of the validation loop: lock the next product in ascending id
\* order (SELECT ... FOR UPDATE waits while another transaction holds the
\* row), compute what is available, and raise or go on.
ReserveLock(c) ==
    /\ tx[c].op = "reserve" /\ tx[c].pc = "lock"
    /\ LET t == tx[c]
           pid == next_product(t.merged, t.locked)
           qty == t.merged[pid]
       IN IF pid \notin Products
          THEN ReserveFails(c, error_detail(product_not_found(pid)))
          ELSE /\ ~ProductLockedByOthers(c, pid)
               /\ LET available == available_stock(stock, reservations \ t.del,
                                                   pid, t.now, c)
                  IN IF available < qty
                     THEN ReserveFails(c, error_detail(
                              insufficient_available_stock(pid, available, qty)))
                     ELSE /\ tx' = [tx EXCEPT ![c].locked = @ \cup {pid},
                                      ![c].pc = IF DOMAIN t.merged = t.locked \cup {pid}
                                                THEN "insert" ELSE "lock"]
                          /\ UNCHANGED reservations
    /\ UNCHANGED <<price, order_items, busVars, now, stock, cons, orderPaidQ, redelivered, paid, commits, orderVars>>

\* A Reserve that takes what it reserves out of the stock as it commits.
ReserveCommitsDecreasing(c) ==
    /\ tx[c].op = "reserve" /\ tx[c].pc = "insert"
    /\ LET t == tx[c]
           reserved_until == t.now + TTL_SECONDS
           kept == reservations \ t.del
       IN /\ reservations' = kept \cup new_reservations(kept, c, t.merged, reserved_until)
          /\ stock' = [p \in DOMAIN stock |->
                          IF p \in DOMAIN t.merged THEN stock[p] - t.merged[p] ELSE stock[p]]
          /\ tx' = [tx EXCEPT ![c] = [IdleTx EXCEPT !.op = "reserve", !.pc = "done",
                                          !.result = [NoResult EXCEPT !.kind = "ok",
                                                         !.reserved_until = reserved_until]]]
    /\ UNCHANGED <<price, order_items, busVars, now, cons, orderPaidQ, redelivered, paid, commits, orderVars>>

\* db.add(...) for every merged product, db.commit(): the deletes and the
\* inserts become visible together and the product locks are released.
ReserveCommits(c) ==
    /\ tx[c].op = "reserve" /\ tx[c].pc = "insert"
    /\ LET t == tx[c]
           reserved_until == t.now + TTL_SECONDS
           kept == reservations \ t.del
       IN /\ reservations' = kept \cup new_reservations(kept, c, t.merged, reserved_until)
          /\ tx' = [tx EXCEPT ![c] = [IdleTx EXCEPT !.op = "reserve", !.pc = "done",
                                          !.result = [NoResult EXCEPT !.kind = "ok",
                                                         !.reserved_until = reserved_until]]]
    /\ UNCHANGED <<price, order_items, busVars, now, stock, cons, orderPaidQ, redelivered, paid, commits, orderVars>>

\* ------------------------------------------------- release_reservations
\* The count of both DELETEs instead of the second one's.
release_counting_purged(rows, t, order_id) ==
    LET live == {r \in rows : r.expires_at > t}
        own == {r \in live : r.order_id = order_id}
    IN [rows |-> live \ own, deleted |-> Cardinality(rows \ (live \ own))]

\* [rows |-> what is left, deleted |-> the count the second DELETE returns]
release_reservations(rows, t, order_id) ==
    LET live == {r \in rows : r.expires_at > t}
        own == {r \in live : r.order_id = order_id}
    IN [rows |-> live \ own, deleted |-> Cardinality(own)]

\* POST /products/reservations/{order_id}/release for order c: the clock is
\* read, both DELETEs run and the transaction commits.
Release(c) ==
    /\ tx[c].pc \in {"idle", "done"}
    /\ ~paid[c]
    /\ LET out == release_reservations(reservations, now, c)
       IN /\ (reservations \ out.rows) \cap RowsLockedByOthers(c) = {}
          /\ reservations' = out.rows
          /\ tx' = [tx EXCEPT ![c] = [IdleTx EXCEPT !.op = "release", !.pc = "done",
                                          !.result = [NoResult EXCEPT !.kind = "released",
                                                         !.released = out.deleted]]]
    /\ UNCHANGED <<price, order_items, busVars, now, stock, cons, orderPaidQ, redelivered, paid, commits, orderVars>>

\* ------------------------------------------------------------ order.paid
\* The lines of an order as the items of an event, in ascending product id.
RECURSIVE items_of(_)
items_of(merged) ==
    IF DOMAIN merged = {} THEN <<>>
    ELSE LET pid == Min(DOMAIN merged)
         IN <<[product_id |-> pid, quantity |-> merged[pid]]>>
            \o items_of([p \in DOMAIN merged \ {pid} |-> merged[p]])

\* What order c holds in the ledger, by product.
held_by(rows, order_id) ==
    LET own == {r \in rows : r.order_id = order_id}
    IN [p \in {r.product_id : r \in own} |->
            SumQuantity({r \in own : r.product_id = p})]

\* payment.succeeded is accepted for order c (the checkout it stored from the
\* last Reserve response is unexpired): the order is paid, order.paid goes out.
\* The ledger knows no users: user_id is 0 here.
PublishOrderPaid(c) ==
    /\ ~paid[c]
    /\ tx[c].op = "reserve" /\ tx[c].pc = "done" /\ tx[c].result.kind = "ok"
    /\ tx[c].result.reserved_until > now
    /\ paid' = [paid EXCEPT ![c] = TRUE]
    /\ orderPaidQ' = Append(orderPaidQ,
                        [order_id |-> c, user_id |-> 0,
                         items |-> items_of(held_by(reservations, c))])
    /\ UNCHANGED <<price, order_items, busVars, now, stock, reservations, tx, cons, redelivered, commits, orderVars>>

\* The decrement without its guard.
stock_unchecked(stk, pid, qty) == TRUE

\* if product.stock < qty: raise ValueError("insufficient_stock")
stock_suffices(stk, pid, qty) == stk[pid] >= qty

\* The commit that leaves every stock as it was.
decrease_nothing(stk, merged) == stk

\* The commit that keeps the decrement of the lowest product only.
decrease_lowest_only(stk, merged) ==
    [p \in DOMAIN stk |-> IF p = Min(DOMAIN merged) THEN stk[p] - merged[p] ELSE stk[p]]

\* product.stock -= qty for every merged product, then db.commit()
decrease_stock_batch(stk, merged) ==
    [p \in DOMAIN stk |-> IF p \in DOMAIN merged THEN stk[p] - merged[p] ELSE stk[p]]

\* The handler raised: the message is nacked with requeue=False and is gone.
OrderPaidDropped ==
    /\ orderPaidQ' = Tail(orderPaidQ)
    /\ cons' = IdleCons
    /\ UNCHANGED <<stock, commits>>

\* _handle_order_paid on the oldest message, inside decrease_stock_batch: one
\* round of its loop (lock the next product in ascending id order, check the
\* stock); the last round is followed by the decrements' commit.
OrderPaidLock ==
    /\ cons.pc \in {"idle", "lock"}
    /\ orderPaidQ # <<>>
    /\ LET msg == Head(orderPaidQ)
           merged == merge_items(msg.items, EmptyMap)
           pid == Min(DOMAIN merged \ cons.locked)
       IN IF pid \notin Products
          THEN OrderPaidDropped
          ELSE /\ ~ProductLockedByOthers(0, pid)
               /\ IF ~stock_suffices(stock, pid, merged[pid])
                  THEN OrderPaidDropped
                  ELSE /\ UNCHANGED orderPaidQ
                       /\ IF DOMAIN merged = cons.locked \cup {pid}
                          THEN /\ stock' = decrease_stock_batch(stock, merged)
                               /\ commits' = [commits EXCEPT ![msg.order_id] = @ + 1]
                               /\ cons' = [pc |-> "clear", locked |-> {}]
                          ELSE /\ cons' = [pc |-> "lock", locked |-> cons.locked \cup {pid}]
                               /\ UNCHANGED <<stock, commits>>
    /\ UNCHANGED <<price, order_items, busVars, now, reservations, tx, redelivered, paid, orderVars>>

\* The second transaction of commit_reservations_and_decrease_stock: DELETE
\* the order's rows, commit.  Then stock.decremented is published and the
\* handler returns.
OrderPaidClear ==
    /\ cons.pc = "clear"
    /\ LET own == {r \in reservations : r.order_id = Head(orderPaidQ).order_id}
       IN /\ own \cap RowsLockedByOthers(0) = {}
          /\ reservations' = reservations \ own
    /\ cons' = [pc |-> "ack", locked |-> {}]
    /\ UNCHANGED <<price, order_items, busVars, now, stock, tx, orderPaidQ, redelivered, paid, commits, orderVars>>

\* basic_ack reaches the broker.
OrderPaidAck ==
    /\ cons.pc = "ack"
    /\ orderPaidQ' = Tail(orderPaidQ)
    /\ cons' = IdleCons
    /\ UNCHANGED <<price, order_items, busVars, now, stock, reservations, tx, redelivered, paid, commits, orderVars>>

\* The connection is lost before the ack reaches the broker: the broker
\* requeues the unacknowledged message and delivers it again.
OrderPaidRedeliver ==
    /\ cons.pc = "ack"
    /\ redelivered < MaxRedeliver
    /\ redelivered' = redelivered + 1
    /\ cons' = IdleCons
    /\ UNCHANGED <<price, order_items, busVars, now, stock, reservations, tx, orderPaidQ, paid, commits, orderVars>>

NextLedger ==
    \/ Tick
    \/ \E c \in OrderIds : \E items \in ItemLists : ReserveStart(c, items)
    \/ \E c \in OrderIds : ReserveLock(c)
    \/ \E c \in OrderIds : ReserveCommits(c)
    \/ \E c \in OrderIds : Release(c)
    \/ \E c \in OrderIds : PublishOrderPaid(c)
    \/ OrderPaidLock
    \/ OrderPaidClear
    \/ OrderPaidAck
    \/ OrderPaidRedeliver

\* The ledger under any interleaving of its requests, the order.paid
\* consumer and the clock.
SpecLedger == Init /\ [][NextLedger]_vars

\* --------------------------------------------- the race for the last unit
\* One unit of every product, and each order reserves once, a list that
\* asks for one unit of the first product.
InitRace ==
    /\ now = 0
    /\ stock = [p \in Products |-> 1]
    /\ reservations = {}
    /\ tx = [c \in OrderIds |-> IdleTx]
    /\ cons = IdleCons
    /\ orderPaidQ = <<>>
    /\ redelivered = 0
    /\ paid = [o \in OrderIds |-> FALSE]
    /\ commits = [o \in OrderIds |-> 0]
    /\ InitOrders
    /\ InitBus
    /\ InitCatalogue

RaceLists ==
    LET last == [product_id |-> Min(Products), quantity |-> 1]
    IN {<<last>>} \cup {<<[product_id |-> p, quantity |-> 1], last>> :
                            p \in Products \ {Min(Products)}}

RaceStart(c) ==
    /\ tx[c].pc = "idle"
    /\ \E items \in RaceLists : ReserveStart(c, items)

NextRace ==
    \/ Tick
    \/ \E c \in OrderIds : RaceStart(c)
    \/ \E c \in OrderIds : ReserveLock(c)
    \/ \E c \in OrderIds : ReserveCommits(c)

SpecRace == InitRace /\ [][NextRace]_vars

\* ------------------------------------------- concurrent batches and locks
\* Each order reserves once, any list; orders that hold are paid and their
\* order.paid is committed while the other reservations are under way.
LocksStart(c) ==
    /\ tx[c].pc = "idle"
    /\ \E items \in ItemLists : ReserveStart(c, items)

NextLocks ==
    \/ \E c \in OrderIds : LocksStart(c)
    \/ \E c \in OrderIds : ReserveLock(c)
    \/ \E c \in OrderIds : ReserveCommits(c)
    \/ \E c \in OrderIds : PublishOrderPaid(c)
    \/ OrderPaidLock
    \/ OrderPaidClear
    \/ OrderPaidAck

\* A request thread or the consumer thread that can take its next step
\* takes it in the end.
FairLocks ==
    /\ \A c \in OrderIds : WF_vars(ReserveLock(c)) /\ WF_vars(ReserveCommits(c))
    /\ WF_vars(OrderPaidLock)
    /\ WF_vars(OrderPaidClear)
    /\ WF_vars(OrderPaidAck)

SpecLocks == Init /\ [][NextLocks]_vars /\ FairLocks

\* ======================================================= the order service
\* A Reserve that inserts the row of every product it could cover and is
\* not rolled back when another product falls short.
reservations_kept_on_refusal(stk, rows, order_id, items, t) ==
    LET merged == merge_items(items, EmptyMap)
        kept == rows \ rows_cleared_by_reserve(rows, t, order_id)
        short == {p \in DOMAIN merged :
                     \/ p \notin DOMAIN stk
                     \/ available_stock(stk, kept, p, t, order_id) < merged[p]}
        covered == [p \in DOMAIN merged \ short |-> merged[p]]
        reserved_until == t + TTL_SECONDS
    IN [kind |-> IF short = {} THEN "ok"
                 ELSE IF Min(short) \in DOMAIN stk THEN "insufficient_stock"
                 ELSE "product_not_found",
        reserved_until |-> IF short = {} THEN reserved_until ELSE 0,
        rows |-> kept \cup new_reservations(kept, order_id, covered, reserved_until)]

\* create_reservations as one transaction that meets no other: what the
\* steps ReserveStart, ReserveLock and ReserveCommits do when run in a row.
create_reservations(stk, rows, order_id, items, t) ==
    LET merged == merge_items(items, EmptyMap)
        kept == rows \ rows_cleared_by_reserve(rows, t, order_id)
        short == {p \in DOMAIN merged :
                     \/ p \notin DOMAIN stk
                     \/ available_stock(stk, kept, p, t, order_id) < merged[p]}
        reserved_until == t + TTL_SECONDS
    IN IF short = {}
       THEN [kind |-> "ok", reserved_until |-> reserved_until,
             rows |-> kept \cup new_reservations(kept, order_id, merged, reserved_until)]
       ELSE [kind |-> IF Min(short) \in DOMAIN stk THEN "insufficient_stock"
                      ELSE "product_not_found",
             reserved_until |-> 0, rows |-> rows]

\* The order service's client of POST /products/reservations, ttl_seconds=60.
reserve_stock_for_order(stk, rows, order_id, items, t) ==
    create_reservations(stk, rows, order_id, items, t)

\* The order service's client of POST /products/reservations/{id}/release:
\* the rows of the ledger after the call.
release_stock_reservation(rows, t, order_id) ==
    release_reservations(rows, t, order_id).rows

\* A Reserve of the order service waits while the order.paid consumer holds
\* the row lock of a product it asks for.
LedgerFree(pids) == \A pid \in pids : pid \notin cons.locked

OrderRows == 1..Len(orders)

CartStates == {"pending", "checkout_pending", "cancelled"}

Max(S) == CHOOSE x \in S : \A y \in S : y <= x

\* The latest unpaid order of the user in a cart state; 0 stands for None.
get_active_cart_by_user(tbl, user_id) ==
    LET found == {o \in 1..Len(tbl) : /\ tbl[o].user_id = user_id
                                       /\ ~tbl[o].payment_status
                                       /\ tbl[o].status \in CartStates}
    IN IF found = {} THEN 0 ELSE Max(found)

\* The latest unpaid checkout_pending order of the user with an expiry, if
\* that expiry is still ahead; 0 stands for None.
get_active_checkout_by_user(tbl, user_id, t) ==
    LET found == {o \in 1..Len(tbl) : /\ tbl[o].user_id = user_id
                                       /\ ~tbl[o].payment_status
                                       /\ tbl[o].status = "checkout_pending"
                                       /\ tbl[o].checkout_expires_at # 0}
    IN IF found = {} THEN 0
       ELSE IF tbl[Max(found)].checkout_expires_at > t THEN Max(found) ELSE 0

\* What a session loaded of an order row.
columns_of(row) ==
    [status |-> row.status, payment_status |-> row.payment_status,
     checkout_expires_at |-> row.checkout_expires_at]

\* db.commit() of a session that loaded `seen` and assigned `set`: the UPDATE
\* names the columns whose assigned value differs from the loaded one.
committed(row, seen, set) ==
    [row EXCEPT
        !.status = IF set.status # seen.status THEN set.status ELSE @,
        !.payment_status = IF set.payment_status # seen.payment_status
                           THEN set.payment_status ELSE @,
        !.checkout_expires_at = IF set.checkout_expires_at # seen.checkout_expires_at
                                THEN set.checkout_expires_at ELSE @]

Cancelled == [status |-> "cancelled", payment_status |-> FALSE, checkout_expires_at |-> 0]
Confirmed == [status |-> "confirmed", payment_status |-> TRUE, checkout_expires_at |-> 0]

\* ------------------------------------------------------------ POST /orders
\* The first half of create_order: no active cart is found for the user.
CreateCheck(w, u, pid, qty) ==
    /\ work[w].pc = "idle"
    /\ Len(orders) + Cardinality({v \in Workers : work[v].pc = "create"}) < NumOrders
    /\ get_active_cart_by_user(orders, u) = 0
    /\ work' = [work EXCEPT ![w] = [IdleWork EXCEPT !.pc = "create", !.user_id = u,
                                       !.product_id = pid, !.quantity = qty]]
    /\ UNCHANGED <<price, order_items, busVars, now, ledgerVars, orders, succ, fail, succeededQ, failedQ, intents, events>>

\* The second half: the product is fetched, its stock compared, and the
\* order and its one line are inserted with status "pending".
CreateInsert(w) ==
    /\ work[w].pc = "create"
    /\ LET r == work[w]
       IN IF stock[r.product_id] < r.quantity
          THEN UNCHANGED orders
          ELSE orders' = Append(orders,
                    [user_id |-> r.user_id, status |-> "pending",
                     payment_status |-> FALSE, checkout_expires_at |-> 0,
                     items |-> [p \in {r.product_id} |-> r.quantity],
                     prices |-> [p \in {r.product_id} |-> price[r.product_id]],
                     total_amount |-> price[r.product_id] * r.quantity])
    /\ work' = [work EXCEPT ![w] = IdleWork]
    /\ UNCHANGED <<price, order_items, busVars, now, ledgerVars, succ, fail, succeededQ, failedQ, intents, events>>

\* --------------------------------------------------- POST /orders/checkout
\* No cart is taken for empty.
cart_never_empty(row) == FALSE

\* if not (db_order.items or [])
cart_is_empty(row) == DOMAIN row.items = {}

\* No checkout is taken for one still in its window.
checkout_never_reusable(row, t) == FALSE

\* db_order.status == "checkout_pending" and exp and exp > now
checkout_reusable(row, t) ==
    /\ row.status = "checkout_pending"
    /\ row.checkout_expires_at # 0
    /\ row.checkout_expires_at > t

\* No checkout is taken for one past its window.
checkout_never_expired(row, t) == FALSE

\* db_order.status == "checkout_pending" and exp and exp <= now
checkout_expired(row, t) ==
    /\ row.status = "checkout_pending"
    /\ row.checkout_expires_at # 0
    /\ row.checkout_expires_at <= t

\* checkout_my_cart up to the Reserve call: the cart is loaded with its
\* lines; an unexpired checkout is returned as it is; an expired one is
\* released in the ledger and committed as cancelled.
CheckoutBegin(w, u) ==
    /\ work[w].pc = "idle"
    /\ LET o == get_active_cart_by_user(orders, u)
       IN /\ o # 0
          /\ ~cart_is_empty(orders[o])
          /\ LET row == orders[o]
                 stale == [columns_of(row) EXCEPT !.status = "cancelled",
                                                  !.checkout_expires_at = 0]
             IN /\ ~checkout_reusable(row, now)
                /\ IF checkout_expired(row, now)
                   THEN /\ reservations' = release_stock_reservation(reservations, now, o)
                        /\ orders' = [orders EXCEPT ![o] =
                                         committed(row, columns_of(row), stale)]
                   ELSE UNCHANGED <<reservations, orders>>
                /\ work' = [work EXCEPT ![w] =
                      [IdleWork EXCEPT !.pc = "reserve", !.user_id = u, !.order_id = o,
                                       !.items = row.items,
                                       !.seen = IF checkout_expired(row, now) THEN stale
                                                ELSE columns_of(row)]]
    /\ UNCHANGED <<price, order_items, busVars, now, stock, tx, cons, orderPaidQ, redelivered, paid, commits,
                   succ, fail, succeededQ, failedQ, intents, events>>

\* reserve_stock_for_order: refused, the error passes to the caller and the
\* order is left as it is; granted, reserved_until is kept for the commit.
CheckoutReserve(w) ==
    /\ work[w].pc = "reserve"
    /\ LedgerFree(DOMAIN work[w].items)
    /\ LET r == work[w]
           out == reserve_stock_for_order(stock, reservations, r.order_id,
                                          items_of(r.items), now)
       IN /\ reservations' = out.rows
          /\ work' = [work EXCEPT ![w] =
                        IF out.kind = "ok"
                        THEN [r EXCEPT !.pc = "commit", !.items = EmptyMap,
                                       !.reserved_until = out.reserved_until]
                        ELSE IdleWork]
    /\ UNCHANGED <<price, order_items, busVars, now, stock, tx, cons, orderPaidQ, redelivered, paid, commits,
                   orders, succ, fail, succeededQ, failedQ, intents, events>>

\* status = "checkout_pending", checkout_expires_at = reserved_until, commit.
CheckoutCommit(w) ==
    /\ work[w].pc = "commit"
    /\ LET r == work[w]
       IN orders' = [orders EXCEPT ![r.order_id] =
              committed(@, r.seen,
                  [r.seen EXCEPT !.status = "checkout_pending",
                                 !.checkout_expires_at = r.reserved_until])]
    /\ work' = [work EXCEPT ![w] = IdleWork]
    /\ UNCHANGED <<price, order_items, busVars, now, ledgerVars, succ, fail, succeededQ, failedQ, intents, events>>

\* checkout_my_cart when the cart is in a checkout window still open: the
\* order id and the expiry of the order are returned, nothing is called.
CheckoutReuse(w, u) ==
    /\ work[w].pc = "idle"
    /\ LET o == get_active_cart_by_user(orders, u)
       IN /\ o # 0
          /\ ~cart_is_empty(orders[o])
          /\ checkout_reusable(orders[o], now)
          /\ work' = [work EXCEPT ![w] =
                [IdleWork EXCEPT !.response = "checkout_pending", !.user_id = u,
                                 !.order_id = o,
                                 !.reserved_until = orders[o].checkout_expires_at]]
    /\ UNCHANGED <<price, order_items, busVars, now, ledgerVars, orders, succ, fail, succeededQ, failedQ, intents, events>>

\* checkout_my_cart refused: 404 without a cart, 400 with a cart of no lines.
CheckoutRefused(w, u) ==
    /\ work[w].pc = "idle"
    /\ LET o == get_active_cart_by_user(orders, u)
       IN \/ /\ o = 0
             /\ work' = [work EXCEPT ![w] =
                   [IdleWork EXCEPT !.response = "checkout_no_cart", !.user_id = u]]
          \/ /\ o # 0
             /\ cart_is_empty(orders[o])
             /\ work' = [work EXCEPT ![w] =
                   [IdleWork EXCEPT !.response = "cart_is_empty", !.user_id = u,
                                    !.order_id = o]]
    /\ UNCHANGED <<price, order_items, busVars, now, ledgerVars, orders, succ, fail, succeededQ, failedQ, intents, events>>

\* ------------------------------ PATCH /orders/cart, PUT and DELETE /cart/item
\* No cart is taken for locked.
checkout_never_active(seen, t) == FALSE

\* _is_active_checkout on the loaded order, at time t.
is_active_checkout(seen, t) ==
    /\ seen.status = "checkout_pending"
    /\ seen.checkout_expires_at # 0
    /\ seen.checkout_expires_at > t

\* The lines of a cart after upsert_cart_items with one (product_id,
\* quantity): quantity 0 removes the line, another quantity sets it.
upsert_cart_items(items, product_id, quantity) ==
    IF quantity = 0
    THEN [p \in DOMAIN items \ {product_id} |-> items[p]]
    ELSE [p \in DOMAIN items \cup {product_id} |->
             IF p = product_id THEN quantity ELSE items[p]]

\* The unit prices of the lines after upsert_cart_items: a deleted line
\* takes its price with it, an added or edited line has the price given.
upsert_cart_prices(prices, product_id, quantity, unit_price) ==
    IF quantity = 0
    THEN [p \in DOMAIN prices \ {product_id} |-> prices[p]]
    ELSE [p \in DOMAIN prices \cup {product_id} |->
             IF p = product_id THEN unit_price ELSE prices[p]]

\* recalc_order_total: sum(Decimal(str(item.price)) * item.quantity) over the
\* lines; on whole cents the conversion is exact.
RECURSIVE recalc_order_total(_, _)
recalc_order_total(items, prices) ==
    IF DOMAIN items = {} THEN 0
    ELSE LET p == Min(DOMAIN items)
         IN prices[p] * items[p]
              + recalc_order_total([q \in DOMAIN items \ {p} |-> items[q]], prices)

\* The entry of the three endpoints: the cart of the user is loaded (404
\* without one), _ensure_cart_editable refuses a cart locked for checkout
\* (409), and PUT and DELETE want the product in the cart (404).
CartEntry(w, u, must_exist, product_id, quantity) ==
    /\ work[w].pc = "idle"
    /\ LET o == get_active_cart_by_user(orders, u)
           answer(text) == [IdleWork EXCEPT !.response = text, !.user_id = u,
                                            !.order_id = o]
       IN work' = [work EXCEPT ![w] =
             IF o = 0 THEN answer("no_active_cart")
             ELSE IF is_active_checkout(columns_of(orders[o]), now)
             THEN [answer("cart_locked_during_checkout") EXCEPT
                      !.reserved_until = orders[o].checkout_expires_at]
             ELSE IF must_exist /\ product_id \notin DOMAIN orders[o].items
             THEN answer("not_in_cart")
             ELSE [IdleWork EXCEPT !.pc = "upsert", !.user_id = u, !.order_id = o,
                                   !.product_id = product_id, !.quantity = quantity,
                                   !.seen = columns_of(orders[o])]]
    /\ UNCHANGED <<price, order_items, busVars, now, ledgerVars, orders, succ, fail, succeededQ, failedQ, intents, events>>

\* PATCH /orders/cart: product_id and quantity are form fields, both gt=0;
\* the product need not be in the cart.
update_my_cart(w, u, product_id, quantity) ==
    /\ product_id > 0 /\ quantity > 0
    /\ CartEntry(w, u, FALSE, product_id, quantity)

\* PUT /orders/cart/item: the same fields; the product is in the cart.
edit_cart_item(w, u, product_id, quantity) ==
    /\ product_id > 0 /\ quantity > 0
    /\ CartEntry(w, u, TRUE, product_id, quantity)

\* DELETE /orders/cart/item: upsert_cart_items is given quantity 0.
delete_cart_item(w, u, product_id) ==
    /\ product_id > 0
    /\ CartEntry(w, u, TRUE, product_id, 0)

\* The rest of the request: PATCH and PUT fetch the product and compare its
\* stock (400), then upsert_cart_items writes the line, recomputes the total
\* from the lines and commits.  No other column of the order is assigned.
CartWrite(w) ==
    /\ work[w].pc = "upsert"
    /\ LET r == work[w]
           answer(text) == [IdleWork EXCEPT !.response = text, !.user_id = r.user_id,
                                            !.order_id = r.order_id]
       IN IF r.quantity > 0 /\ stock[r.product_id] < r.quantity
          THEN /\ work' = [work EXCEPT ![w] = answer("insufficient_stock")]
               /\ UNCHANGED orders
          ELSE /\ work' = [work EXCEPT ![w] = answer("cart_updated")]
               /\ LET row == orders[r.order_id]
                      items == upsert_cart_items(row.items, r.product_id, r.quantity)
                      prices == upsert_cart_prices(row.prices, r.product_id, r.quantity,
                                    IF r.quantity = 0 THEN 0 ELSE price[r.product_id])
                  IN orders' = [orders EXCEPT ![r.order_id].items = items,
                                              ![r.order_id].prices = prices,
                                              ![r.order_id].total_amount =
                                                  recalc_order_total(items, prices)]
    /\ UNCHANGED <<price, order_items, busVars, now, ledgerVars, succ, fail, succeededQ, failedQ, intents, events>>

\* The same rest of the request as its session sees it, for requests served
\* concurrently.  First the stock comparison, the flush of the line, the
\* refresh and recalc_order_total: the lines the session reads are the
\* committed ones with its own line added, changed or deleted; a line
\* another session has flushed and not committed is not among them.  A
\* flush that changes a line another session has changed waits for that
\* session's commit (two sessions inserting the same product are left out:
\* the map of lines has no place for the two rows).
CartRecalc(w) ==
    /\ work[w].pc = "upsert"
    /\ \A v \in DOMAIN work \ {w} :
          ~(work[v].pc = "commit" /\ work[v].order_id = work[w].order_id
                                  /\ work[v].product_id = work[w].product_id)
    /\ LET r == work[w]
           answer(text) == [IdleWork EXCEPT !.response = text, !.user_id = r.user_id,
                                            !.order_id = r.order_id]
           row == orders[r.order_id]
           items == upsert_cart_items(row.items, r.product_id, r.quantity)
           prices == upsert_cart_prices(row.prices, r.product_id, r.quantity,
                         IF r.quantity = 0 THEN 0 ELSE price[r.product_id])
       IN work' = [work EXCEPT ![w] =
             IF r.quantity > 0 /\ stock[r.product_id] < r.quantity
             THEN answer("insufficient_stock")
             ELSE [r EXCEPT !.pc = "commit", !.items = items, !.prices = prices,
                            !.total_amount = recalc_order_total(items, prices),
                            !.seen_total = row.total_amount]]
    /\ UNCHANGED <<price, order_items, busVars, now, ledgerVars, orders, succ, fail, succeededQ, failedQ, intents, events>>

\* db.commit(): the session's line change becomes visible beside the lines
\* committed meanwhile, and total_amount is written if the value assigned
\* differs from the one the refresh loaded.
CartCommit(w) ==
    /\ work[w].pc = "commit"
    /\ LET r == work[w]
           row == orders[r.order_id]
       IN /\ orders' = [orders EXCEPT
                 ![r.order_id].items = upsert_cart_items(row.items, r.product_id, r.quantity),
                 ![r.order_id].prices =
                     upsert_cart_prices(row.prices, r.product_id, r.quantity,
                         IF r.quantity = 0 THEN 0 ELSE r.prices[r.product_id]),
                 ![r.order_id].total_amount =
                     IF r.total_amount # r.seen_total THEN r.total_amount ELSE @]
          /\ work' = [work EXCEPT ![w] =
                 [IdleWork EXCEPT !.response = "cart_updated", !.user_id = r.user_id,
                                  !.order_id = r.order_id]]
    /\ UNCHANGED <<price, order_items, busVars, now, ledgerVars, succ, fail, succeededQ, failedQ, intents, events>>

\* ------------------------------------------------------ the payment service
\* POST /payments/stripe/pay-url: a PaymentIntent is created for the order
\* GET /orders/checkout returns for the user.
CreateIntent(u) ==
    /\ get_active_checkout_by_user(orders, u, now) # 0
    /\ get_active_checkout_by_user(orders, u, now) \notin intents
    /\ intents' = intents \cup {get_active_checkout_by_user(orders, u, now)}
    /\ UNCHANGED <<price, order_items, busVars, now, ledgerVars, orders, work, succ, fail, succeededQ, failedQ, events>>

\* The Stripe webhook: an attempt on the intent succeeded or failed (Stripe
\* reports every attempt, and repeats a report it saw no answer to); the
\* event is published with the order id of the intent's metadata.
Webhook(o) ==
    /\ o \in intents
    /\ events < MaxEvents
    /\ events' = events + 1
    /\ \/ succeededQ' = Append(succeededQ, o) /\ UNCHANGED failedQ
       \/ failedQ' = Append(failedQ, o) /\ UNCHANGED succeededQ
    /\ UNCHANGED <<price, order_items, busVars, now, ledgerVars, orders, work, succ, fail, intents>>

\* ------------------------------------------------------ payment.succeeded
\* Every payment.succeeded is taken for an invalid checkout.
checkout_never_valid(seen, t) == TRUE

\* Every payment.succeeded is taken for a valid checkout.
checkout_always_valid(seen, t) == FALSE

\* The test of _handle_payment_succeeded on what it loaded, at time t.
checkout_invalid(seen, t) ==
    \/ seen.payment_status
    \/ seen.status # "checkout_pending"
    \/ seen.checkout_expires_at = 0
    \/ seen.checkout_expires_at <= t

\* The handler loads the order of the oldest message, reads the clock and
\* takes its branch.
SucceededRead ==
    /\ succ.pc = "idle"
    /\ succeededQ # <<>>
    /\ LET seen == columns_of(orders[Head(succeededQ)])
       IN succ' = [pc |-> IF checkout_invalid(seen, now) THEN "cancel" ELSE "pay",
                   seen |-> seen]
    /\ UNCHANGED <<price, order_items, busVars, now, ledgerVars, orders, work, fail, succeededQ, failedQ, intents, events>>

\* The invalid branch: payment_status = False, status = "cancelled",
\* checkout_expires_at = None, commit.
SucceededCancel ==
    /\ succ.pc = "cancel"
    /\ orders' = [orders EXCEPT ![Head(succeededQ)] = committed(@, succ.seen, Cancelled)]
    /\ succ' = [succ EXCEPT !.pc = "release"]
    /\ UNCHANGED <<price, order_items, busVars, now, ledgerVars, work, fail, succeededQ, failedQ, intents, events>>

\* The release that follows, best effort: it reaches the ledger, or raises
\* and is passed over.  The handler returns and the message is acknowledged.
SucceededRelease ==
    /\ succ.pc = "release"
    /\ \/ reservations' = release_stock_reservation(reservations, now, Head(succeededQ))
       \/ UNCHANGED reservations
    /\ succ' = IdleHandler
    /\ succeededQ' = Tail(succeededQ)
    /\ UNCHANGED <<price, order_items, busVars, now, stock, tx, cons, orderPaidQ, redelivered, paid, commits,
                   orders, work, fail, failedQ, intents, events>>

\* The valid branch: mark_order_paid commits, order.paid is published with
\* the lines of the order, the handler returns and the message is
\* acknowledged.
SucceededPay ==
    /\ succ.pc = "pay"
    /\ LET o == Head(succeededQ)
       IN /\ orders' = [orders EXCEPT ![o] = committed(@, succ.seen, Confirmed)]
          /\ orderPaidQ' = Append(orderPaidQ,
                              [order_id |-> o, user_id |-> orders[o].user_id,
                               items |-> items_of(orders[o].items)])
    /\ succ' = IdleHandler
    /\ succeededQ' = Tail(succeededQ)
    /\ UNCHANGED <<price, order_items, busVars, now, stock, reservations, tx, cons, redelivered, paid, commits,
                   work, fail, failedQ, intents, events>>

\* --------------------------------------------------------- payment.failed
\* The payment is not undone.
failed_never_ignores(seen) == FALSE

\* if order.payment_status: return
failed_ignores(seen) == seen.payment_status

\* The handler loads the order of the oldest message; a paid order ends it
\* there, and the message is acknowledged.
FailedRead ==
    /\ fail.pc = "idle"
    /\ failedQ # <<>>
    /\ LET seen == columns_of(orders[Head(failedQ)])
       IN IF failed_ignores(seen)
          THEN fail' = IdleHandler /\ failedQ' = Tail(failedQ)
          ELSE fail' = [pc |-> "cancel", seen |-> seen] /\ UNCHANGED failedQ
    /\ UNCHANGED <<price, order_items, busVars, now, ledgerVars, orders, work, succ, succeededQ, intents, events>>

\* payment_status = False, status = "cancelled", checkout_expires_at = None,
\* commit.
FailedCancel ==
    /\ fail.pc = "cancel"
    /\ orders' = [orders EXCEPT ![Head(failedQ)] = committed(@, fail.seen, Cancelled)]
    /\ fail' = [fail EXCEPT !.pc = "release"]
    /\ UNCHANGED <<price, order_items, busVars, now, ledgerVars, work, succ, succeededQ, failedQ, intents, events>>

\* The release that follows, best effort, and the acknowledgement.
FailedRelease ==
    /\ fail.pc = "release"
    /\ \/ reservations' = release_stock_reservation(reservations, now, Head(failedQ))
       \/ UNCHANGED reservations
    /\ fail' = IdleHandler
    /\ failedQ' = Tail(failedQ)
    /\ UNCHANGED <<price, order_items, busVars, now, stock, tx, cons, orderPaidQ, redelivered, paid, commits,
                   orders, work, succ, succeededQ, intents, events>>

\* The order service serving one request at a time.
OneWorker == {Min(Workers)}

NextOrders ==
    \/ Tick
    \/ \E w \in OneWorker : \E u \in Users : \E pid \in Products : \E qty \in 1..MaxQty :
          CreateCheck(w, u, pid, qty)
    \/ \E w \in OneWorker : CreateInsert(w)
    \/ \E w \in OneWorker : \E u \in Users : CheckoutBegin(w, u)
    \/ \E w \in OneWorker : CheckoutReserve(w)
    \/ \E w \in OneWorker : CheckoutCommit(w)
    \/ \E u \in Users : CreateIntent(u)
    \/ \E o \in OrderIds : Webhook(o)
    \/ SucceededRead
    \/ SucceededCancel
    \/ SucceededRelease
    \/ SucceededPay
    \/ FailedRead
    \/ FailedCancel
    \/ FailedRelease
    \/ OrderPaidLock
    \/ OrderPaidClear
    \/ OrderPaidAck
    \/ OrderPaidRedeliver

\* Carts, checkouts, payments and settlement: requests served one at a
\* time, both payment consumers running (start_payment_consumers), the
\* order.paid consumer of the product service and the clock.
SpecOrders == Init /\ [][NextOrders]_vars

\* The order service as main.py starts it: _startup calls
\* start_payment_succeeded_consumer only, so the thread of
\* _handle_payment_failed never runs and nothing takes a message out of the
\* payment.failed events published for the order service.
NextStartup ==
    \/ Tick
    \/ \E w \in OneWorker : \E u \in Users : \E pid \in Products : \E qty \in 1..MaxQty :
          CreateCheck(w, u, pid, qty)
    \/ \E w \in OneWorker : CreateInsert(w)
    \/ \E w \in OneWorker : \E u \in Users : CheckoutBegin(w, u)
    \/ \E w \in OneWorker : CheckoutReserve(w)
    \/ \E w \in OneWorker : CheckoutCommit(w)
    \/ \E u \in Users : CreateIntent(u)
    \/ \E o \in OrderIds : Webhook(o)
    \/ SucceededRead
    \/ SucceededCancel
    \/ SucceededRelease
    \/ SucceededPay

\* The consumer thread that was started keeps running: a handler step that
\* can be taken is taken.
FairStartup ==
    /\ WF_vars(SucceededRead)
    /\ WF_vars(SucceededCancel)
    /\ WF_vars(SucceededRelease)
    /\ WF_vars(SucceededPay)

SpecStartup == Init /\ [][NextStartup]_vars /\ FairStartup

\* From checkout to settlement with nothing lost on the way: the
\* payment.succeeded consumer of the order service and the order.paid
\* consumer of the product service, every order.paid delivered once.
NextSettle ==
    \/ Tick
    \/ \E w \in OneWorker : \E u \in Users : \E pid \in Products : \E qty \in 1..MaxQty :
          CreateCheck(w, u, pid, qty)
    \/ \E w \in OneWorker : CreateInsert(w)
    \/ \E w \in OneWorker : \E u \in Users : CheckoutBegin(w, u)
    \/ \E w \in OneWorker : CheckoutReserve(w)
    \/ \E w \in OneWorker : CheckoutCommit(w)
    \/ \E u \in Users : CreateIntent(u)
    \/ \E o \in OrderIds : Webhook(o)
    \/ SucceededRead
    \/ SucceededCancel
    \/ SucceededRelease
    \/ SucceededPay
    \/ OrderPaidLock
    \/ OrderPaidClear
    \/ OrderPaidAck

\* Both consumer threads keep running and the broker keeps delivering: a
\* handler step that can be taken is taken.
FairSettle ==
    /\ WF_vars(SucceededRead)
    /\ WF_vars(SucceededCancel)
    /\ WF_vars(SucceededRelease)
    /\ WF_vars(SucceededPay)
    /\ WF_vars(OrderPaidLock)
    /\ WF_vars(OrderPaidClear)
    /\ WF_vars(OrderPaidAck)

\* It starts with one unit of every product, so that the last unit is at
\* stake.
SpecSettle == InitRace /\ [][NextSettle]_vars /\ FairSettle

\* ------------------------------------------------- the order_items table
\* existing_by_product_id = {item.product_id: item for item in db_order.items}
\* looked up at pid: the place in the table of the order's line for the
\* product, the later one where there are several, 0 where there is none.
existing_by_product_id(rows, order_id, pid) ==
    LET found == {i \in 1..Len(rows) : /\ rows[i].order_id = order_id
                                       /\ rows[i].product_id = pid}
    IN IF found = {} THEN 0 ELSE Max(found)

\* An upsert that adds a line whatever the table holds.
upsert_always_adds(rows, order_id, pid, qty) ==
    Append(rows, [order_id |-> order_id, product_id |-> pid, quantity |-> qty])

\* upsert_cart_items on the rows themselves, for the one item its callers
\* pass: quantity 0 deletes the line if there is one; otherwise the line is
\* added, or its quantity overwritten.
upsert_order_items(rows, order_id, pid, qty) ==
    LET i == existing_by_product_id(rows, order_id, pid)
    IN IF qty = 0
       THEN IF i # 0
            THEN SubSeq(rows, 1, i - 1) \o SubSeq(rows, i + 1, Len(rows))
            ELSE rows
       ELSE IF i = 0
            THEN Append(rows, [order_id |-> order_id, product_id |-> pid,
                               quantity |-> qty])
            ELSE [rows EXCEPT ![i].quantity = qty]

\* One call of upsert_cart_items for the cart o with the item (pid, qty):
\* qty > 0 as PATCH /cart and PUT /cart/item pass it, 0 as DELETE
\* /cart/item does.  The worker keeps what it was asked.
UpsertCall(w, o, pid, qty) ==
    /\ work[w].pc = "idle"
    /\ order_items' = upsert_order_items(order_items, o, pid, qty)
    /\ work' = [work EXCEPT ![w] = [IdleWork EXCEPT !.order_id = o, !.product_id = pid,
                                                    !.quantity = qty,
                                                    !.response = "cart_updated"]]
    /\ UNCHANGED <<price, busVars, now, ledgerVars, orders, succ, fail, succeededQ, failedQ,
                   intents, events>>

NextLines ==
    \E w \in OneWorker : \E o \in OrderIds : \E pid \in Products :
        \E qty \in 0..MaxCartQty : UpsertCall(w, o, pid, qty)

\* The lines of the carts under any sequence of upserts, one at a time.
SpecLines == Init /\ [][NextLines]_vars

NextCarts ==
    \/ Tick
    \/ \E w \in Workers : \E u \in Users : \E pid \in Products : \E qty \in 1..MaxQty :
          CreateCheck(w, u, pid, qty)
    \/ \E w \in Workers : CreateInsert(w)
    \/ \E w \in Workers : \E u \in Users : CheckoutBegin(w, u)
    \/ \E w \in Workers : CheckoutReserve(w)
    \/ \E w \in Workers : CheckoutCommit(w)

\* Cart creation and checkout with requests served concurrently.
SpecCarts == Init /\ [][NextCarts]_vars

NextEdit ==
    \/ Tick
    \/ \E w \in OneWorker : \E u \in Users : \E pid \in Products : \E qty \in 1..MaxQty :
          CreateCheck(w, u, pid, qty)
    \/ \E w \in OneWorker : CreateInsert(w)
    \/ \E w \in OneWorker : \E u \in Users : \E pid \in Products : \E qty \in 1..MaxCartQty :
          update_my_cart(w, u, pid, qty)
    \/ \E w \in OneWorker : \E u \in Users : \E pid \in Products : \E qty \in 1..MaxCartQty :
          edit_cart_item(w, u, pid, qty)
    \/ \E w \in OneWorker : \E u \in Users : \E pid \in Products :
          delete_cart_item(w, u, pid)
    \/ \E w \in OneWorker : CartWrite(w)
    \/ \E w \in OneWorker : \E u \in Users : CheckoutBegin(w, u)
    \/ \E w \in OneWorker : \E u \in Users : CheckoutReuse(w, u)
    \/ \E w \in OneWorker : \E u \in Users : CheckoutRefused(w, u)
    \/ \E w \in OneWorker : CheckoutReserve(w)
    \/ \E w \in OneWorker : CheckoutCommit(w)

\* Carts edited and checked out, requests served one at a time, and the
\* clock.
SpecEdit == Init /\ [][NextEdit]_vars

\* ------------------------------------------ one cart from checkout to paid
\* Every product at stock 5; one user, who makes one cart of one product
\* times 2, checks it out once and pays once.
InitScenario ==
    /\ now = 0
    /\ stock = [p \in Products |-> ScenarioStock]
    /\ reservations = {}
    /\ tx = [c \in OrderIds |-> IdleTx]
    /\ cons = IdleCons
    /\ orderPaidQ = <<>>
    /\ redelivered = 0
    /\ paid = [o \in OrderIds |-> FALSE]
    /\ commits = [o \in OrderIds |-> 0]
    /\ InitOrders
    /\ InitBus
    /\ InitCatalogue

ScenarioUser == Min(Users)

\* POST /orders with product_id and quantity 2, when there is no order yet.
ScenarioCreate(w, pid) ==
    /\ Len(orders) = 0
    /\ CreateCheck(w, ScenarioUser, pid, ScenarioQty)

\* POST /orders/checkout on the cart that has not been checked out.
ScenarioCheckout(w) ==
    /\ get_active_cart_by_user(orders, ScenarioUser) # 0
    /\ orders[get_active_cart_by_user(orders, ScenarioUser)].status = "pending"
    /\ CheckoutBegin(w, ScenarioUser)

\* The webhook reports the one attempt on the intent, which succeeded.
ScenarioPayment(o) ==
    /\ o \in intents
    /\ events = 0
    /\ events' = events + 1
    /\ succeededQ' = Append(succeededQ, o)
    /\ UNCHANGED <<price, order_items, busVars, now, ledgerVars, orders, work, succ, fail, failedQ, intents>>

NextScenario ==
    \/ Tick
    \/ \E w \in OneWorker : \E pid \in Products : ScenarioCreate(w, pid)
    \/ \E w \in OneWorker : CreateInsert(w)
    \/ \E w \in OneWorker : ScenarioCheckout(w)
    \/ \E w \in OneWorker : CheckoutReserve(w)
    \/ \E w \in OneWorker : CheckoutCommit(w)
    \/ CreateIntent(ScenarioUser)
    \/ \E o \in OrderIds : ScenarioPayment(o)
    \/ SucceededRead
    \/ SucceededCancel
    \/ SucceededRelease
    \/ SucceededPay
    \/ OrderPaidLock
    \/ OrderPaidClear
    \/ OrderPaidAck

SpecScenario == InitScenario /\ [][NextScenario]_vars

\* ------------------------------------------------ one cart and its total
\* PATCH /products/{product_id} by an admin: the product gets another price.
UpdatePrice(p, v) ==
    /\ v # price[p]
    /\ price' = [price EXCEPT ![p] = v]
    /\ UNCHANGED <<order_items, busVars, now, ledgerVars, orderVars>>

\* POST /orders when the user has no order yet.
FirstCreate(w, pid, qty) ==
    /\ Len(orders) = 0
    /\ CreateCheck(w, ScenarioUser, pid, qty)

\* One user's cart created, edited, checked out and paid for or not, while
\* the prices of the catalogue change; requests are served one at a time,
\* both payment handlers run, and no hold lasts long enough to expire.
NextTotals ==
    \/ \E w \in OneWorker : \E pid \in Products : \E qty \in 1..MaxQty :
          FirstCreate(w, pid, qty)
    \/ \E w \in OneWorker : CreateInsert(w)
    \/ \E w \in OneWorker : \E pid \in Products : \E qty \in 1..MaxCartQty :
          update_my_cart(w, ScenarioUser, pid, qty)
    \/ \E w \in OneWorker : \E pid \in Products : \E qty \in 1..MaxCartQty :
          edit_cart_item(w, ScenarioUser, pid, qty)
    \/ \E w \in OneWorker : \E pid \in Products : delete_cart_item(w, ScenarioUser, pid)
    \/ \E w \in OneWorker : CartWrite(w)
    \/ \E w \in OneWorker : CheckoutBegin(w, ScenarioUser)
    \/ \E w \in OneWorker : CheckoutReserve(w)
    \/ \E w \in OneWorker : CheckoutCommit(w)
    \/ CreateIntent(ScenarioUser)
    \/ \E o \in OrderIds : Webhook(o)
    \/ SucceededRead
    \/ SucceededCancel
    \/ SucceededRelease
    \/ SucceededPay
    \/ FailedRead
    \/ FailedCancel
    \/ FailedRelease
    \/ \E p \in Products : \E v \in 1..MaxPrice : UpdatePrice(p, v)

SpecTotals == Init /\ [][NextTotals]_vars

\* The webhook reports two attempts on the intent, one that failed and one
\* that succeeded; each event goes to the queue of its own consumer, so the
\* order of the two reports does not matter.
WebhookBoth(o) ==
    /\ o \in intents
    /\ events = 0
    /\ events' = events + 2
    /\ succeededQ' = Append(succeededQ, o)
    /\ failedQ' = Append(failedQ, o)
    /\ UNCHANGED <<price, order_items, busVars, now, ledgerVars, orders, work, succ, fail, intents>>

\* One user's cart checked out, a payment.succeeded and a payment.failed
\* reported for it and handled by the two consumers, each in its own
\* thread; the order.paid events stay in their queue as they were published.
NextPayments ==
    \/ Tick
    \/ \E w \in OneWorker : \E pid \in Products : \E qty \in 1..MaxQty :
          FirstCreate(w, pid, qty)
    \/ \E w \in OneWorker : CreateInsert(w)
    \/ \E w \in OneWorker : CheckoutBegin(w, ScenarioUser)
    \/ \E w \in OneWorker : CheckoutReserve(w)
    \/ \E w \in OneWorker : CheckoutCommit(w)
    \/ CreateIntent(ScenarioUser)
    \/ \E o \in OrderIds : WebhookBoth(o)
    \/ SucceededRead
    \/ SucceededCancel
    \/ SucceededRelease
    \/ SucceededPay
    \/ FailedRead
    \/ FailedCancel
    \/ FailedRelease

SpecPayments == Init /\ [][NextPayments]_vars

\* The webhook as Webhook above, for up to MaxDeliveries reports: Stripe
\* reports every attempt and repeats a report, so the same event can reach
\* its queue again after the order has moved on.
WebhookRepeated(o) ==
    /\ o \in intents
    /\ events < MaxDeliveries
    /\ events' = events + 1
    /\ \/ succeededQ' = Append(succeededQ, o) /\ UNCHANGED failedQ
       \/ failedQ' = Append(failedQ, o) /\ UNCHANGED succeededQ
    /\ UNCHANGED <<price, order_items, busVars, now, ledgerVars, orders, work, succ, fail, intents>>

\* One user's cart checked out any number of times while payment events,
\* repeated ones among them, are handled by the two consumers; the
\* order.paid events stay in their queue as they were published.
NextPaidOnce ==
    \/ Tick
    \/ \E w \in OneWorker : \E pid \in Products : \E qty \in 1..MaxQty :
          FirstCreate(w, pid, qty)
    \/ \E w \in OneWorker : CreateInsert(w)
    \/ \E w \in OneWorker : CheckoutBegin(w, ScenarioUser)
    \/ \E w \in OneWorker : CheckoutReserve(w)
    \/ \E w \in OneWorker : CheckoutCommit(w)
    \/ CreateIntent(ScenarioUser)
    \/ \E o \in OrderIds : WebhookRepeated(o)
    \/ SucceededRead
    \/ SucceededCancel
    \/ SucceededRelease
    \/ SucceededPay
    \/ FailedRead
    \/ FailedCancel
    \/ FailedRelease

SpecPaidOnce == Init /\ [][NextPaidOnce]_vars

\* The workers that serve the cart mutations below while the first serves
\* create and checkout.
OtherWorkers == Workers \ OneWorker

\* One user's cart edited and checked out by requests served concurrently,
\* and one payment.succeeded for it; no hold lasts long enough to expire and
\* the order.paid events stay in their queue as they were published.
NextEditCheckout ==
    \/ \E w \in OneWorker : \E pid \in Products : \E qty \in 1..MaxQty :
          FirstCreate(w, pid, qty)
    \/ \E w \in OneWorker : CreateInsert(w)
    \/ \E w \in OtherWorkers : \E pid \in Products : \E qty \in 1..MaxCartQty :
          update_my_cart(w, ScenarioUser, pid, qty)
    \/ \E w \in OtherWorkers : \E pid \in Products : \E qty \in 1..MaxCartQty :
          edit_cart_item(w, ScenarioUser, pid, qty)
    \/ \E w \in OtherWorkers : \E pid \in Products : delete_cart_item(w, ScenarioUser, pid)
    \/ \E w \in OtherWorkers : CartWrite(w)
    \/ \E w \in OneWorker : CheckoutBegin(w, ScenarioUser)
    \/ \E w \in OneWorker : CheckoutReserve(w)
    \/ \E w \in OneWorker : CheckoutCommit(w)
    \/ CreateIntent(ScenarioUser)
    \/ \E o \in OrderIds : ScenarioPayment(o)
    \/ SucceededRead
    \/ SucceededPay

SpecEditCheckout == Init /\ [][NextEditCheckout]_vars

\* The same cart edited by requests served concurrently, at the prices the
\* catalogue starts with.
NextCartWriters ==
    \/ \E w \in Workers : \E pid \in Products : \E qty \in 1..MaxQty :
          FirstCreate(w, pid, qty)
    \/ \E w \in Workers : CreateInsert(w)
    \/ \E w \in Workers : \E pid \in Products : \E qty \in 1..MaxCartQty :
          update_my_cart(w, ScenarioUser, pid, qty)
    \/ \E w \in Workers : \E pid \in Products : \E qty \in 1..MaxCartQty :
          edit_cart_item(w, ScenarioUser, pid, qty)
    \/ \E w \in Workers : \E pid \in Products : delete_cart_item(w, ScenarioUser, pid)
    \/ \E w \in Workers : CartRecalc(w)
    \/ \E w \in Workers : CartCommit(w)

SpecCartWriters == Init /\ [][NextCartWriters]_vars

\* ================================================== the event bus adapter
\* What a handler does with a payload: it returns, it raises, or the body
\* is not JSON and json.loads raises before the handler is called.
Bodies == {"returns", "raises", "undecodable"}

\* publish_event while the broker is reachable: the topic exchange routes
\* the message to the queue if the queue has been declared and bound, and
\* discards it otherwise.
Publish(body) ==
    /\ published < MaxMessages
    /\ broker.up
    /\ published' = published + 1
    /\ broker' = IF broker.declared
                 THEN [broker EXCEPT !.ready = Append(@, [id |-> published + 1,
                                                          body |-> body])]
                 ELSE broker
    /\ UNCHANGED <<price, order_items, now, ledgerVars, orderVars, link, handled, faults>>

\* The connection breaks (broker down, network): the broker puts the
\* messages it had delivered and seen no answer to back on the queue.
ConnectionLost ==
    /\ faults < MaxFaults
    /\ broker.up
    /\ faults' = faults + 1
    /\ broker' = [broker EXCEPT !.up = FALSE, !.ready = broker.unacked \o @,
                                !.unacked = <<>>]
    /\ link' = [link EXCEPT !.alive = FALSE]
    /\ UNCHANGED <<price, order_items, now, ledgerVars, orderVars, handled, published>>

\* The broker can be reached again.
BrokerBack ==
    /\ ~broker.up
    /\ broker' = [broker EXCEPT !.up = TRUE]
    /\ UNCHANGED <<price, order_items, now, ledgerVars, orderVars, link, handled, faults, published>>

\* The loop goes round without the sleep.
no_backoff(l) == [l EXCEPT !.pc = "connect", !.alive = FALSE, !.left = 0,
                           !.msg = NoMessage]

\* except Exception: time.sleep(3)
backoff(l) == [l EXCEPT !.pc = "sleep", !.alive = FALSE, !.left = BACKOFF_SECONDS,
                        !.msg = NoMessage]

\* _connect, exchange_declare, queue_declare, queue_bind, basic_qos,
\* basic_consume: with the broker away one of them raises.
Connect ==
    /\ link.pc = "connect"
    /\ IF broker.up
       THEN /\ broker' = [broker EXCEPT !.declared = TRUE]
            /\ link' = [link EXCEPT !.pc = "wait", !.alive = TRUE]
       ELSE /\ link' = backoff(link)
            /\ UNCHANGED broker
    /\ UNCHANGED <<price, order_items, now, ledgerVars, orderVars, handled, faults, published>>

\* start_consuming: the oldest message is delivered and _on_message begins.
Deliver ==
    /\ link.pc = "wait" /\ link.alive
    /\ broker.ready # <<>>
    /\ broker' = [broker EXCEPT !.ready = Tail(@),
                                !.unacked = Append(@, Head(broker.ready))]
    /\ link' = [link EXCEPT !.pc = "handle", !.msg = Head(broker.ready)]
    /\ UNCHANGED <<price, order_items, now, ledgerVars, orderVars, handled, faults, published>>

\* start_consuming on a connection that is gone raises.
ConsumeFails ==
    /\ link.pc = "wait" /\ ~link.alive
    /\ link' = backoff(link)
    /\ UNCHANGED <<price, order_items, now, ledgerVars, orderVars, broker, handled, faults, published>>

\* The answer _on_message gives after a handler that raised is an ack.
answer_always_ack(body) == "ack"

\* try: json.loads, handler(payload), basic_ack / except Exception: basic_nack
answer_of(body) == IF body = "returns" THEN "ack" ELSE "nack"

\* payload = json.loads(...); handler(payload)
OnMessage ==
    /\ link.pc = "handle"
    /\ handled' = [handled EXCEPT ![link.msg.id] = @ + 1]
    /\ link' = [link EXCEPT !.pc = answer_of(link.msg.body)]
    /\ UNCHANGED <<price, order_items, now, ledgerVars, orderVars, broker, faults, published>>

\* The queue without the message the consumer answered.
answered(unacked, msg) == SelectSeq(unacked, LAMBDA m : m # msg)

\* basic_ack, or basic_nack(requeue=False): the broker forgets the message.
\* On a connection that is gone the call raises (after a failed basic_ack
\* the basic_nack of the except clause raises as well), the exception leaves
\* start_consuming and the loop backs off.
Answer ==
    /\ link.pc \in {"ack", "nack"}
    /\ IF link.alive
       THEN /\ broker' = [broker EXCEPT !.unacked = answered(@, link.msg)]
            /\ link' = [link EXCEPT !.pc = "wait", !.msg = NoMessage]
       ELSE /\ link' = backoff(link)
            /\ UNCHANGED broker
    /\ UNCHANGED <<price, order_items, now, ledgerVars, orderVars, handled, faults, published>>

\* One second of time.sleep(3) passes.
SleepSecond ==
    /\ link.pc = "sleep" /\ link.left > 0
    /\ link' = [link EXCEPT !.left = @ - 1]
    /\ UNCHANGED <<price, order_items, now, ledgerVars, orderVars, broker, handled, faults, published>>

\* The sleep is over: finally connection.close(), and while True again.
Wake ==
    /\ link.pc = "sleep" /\ link.left = 0
    /\ link' = [link EXCEPT !.pc = "connect"]
    /\ UNCHANGED <<price, order_items, now, ledgerVars, orderVars, broker, handled, faults, published>>

NextBus ==
    \/ \E body \in Bodies : Publish(body)
    \/ ConnectionLost
    \/ BrokerBack
    \/ Connect
    \/ Deliver
    \/ ConsumeFails
    \/ OnMessage
    \/ Answer
    \/ SleepSecond
    \/ Wake

\* The consumer thread keeps running, and a broker that is away comes back.
FairBus ==
    /\ WF_vars(Connect) /\ WF_vars(Deliver) /\ WF_vars(ConsumeFails)
    /\ WF_vars(OnMessage) /\ WF_vars(Answer)
    /\ WF_vars(SleepSecond) /\ WF_vars(Wake)
    /\ WF_vars(BrokerBack)

\* One queue, its publishers, its consumer thread and the connection.
SpecBus == Init /\ [][NextBus]_vars /\ FairBus

\* ================================================================ claims
Unexpired(rows, t) == {r \in rows : r.expires_at > t}
RowsOf(rows, order_id) == {r \in rows : r.order_id = order_id}

\* C1: every product's stock covers its unexpired reservations,
\* stock - sum(unexpired reservations) >= 0, in every reachable state.
C1_NoOversell ==
    \A p \in Products : stock[p] - reserved_qty_for_product(reservations, p, now, 0) >= 0

\* C2: no product's stock is ever negative, whatever order.paid commits
\* are processed (for expired holds, or the same event more than once).
C2_StockNonNegative == \A p \in Products : stock[p] >= 0

\* The same order.paid has been committed twice and took a stock to zero.
C2_Witness ==
    \E o \in OrderIds : \E p \in Products : commits[o] >= 2 /\ stock[p] = 0

\* C5: however often one order.paid event is delivered, the order's
\* quantities leave the stock once.
C5_DecrementedOnce == \A o \in OrderIds : commits[o] <= 1

\* The product the validation loop of order c's Reserve looks at next.
NextPid(c) == Min(DOMAIN tx[c].merged \ tx[c].locked)

\* What is left of a product for order c at the time its Reserve read the
\* clock: the stock less the unexpired holds of the other orders.
LeftFor(c, p) ==
    stock[p] - SumQuantity({r \in reservations : /\ r.product_id = p
                                                  /\ r.order_id # c
                                                  /\ r.expires_at > tx[c].now})

NextShort(c) ==
    NextPid(c) \notin Products \/ tx[c].merged[NextPid(c)] > LeftFor(c, NextPid(c))

\* C8: Reserve is all-or-nothing.  A round that meets a missing product, or
\* one asked for beyond what is available, ends the call in failure with the
\* table as it was; a call that commits found every product present and
\* covered.
C8_ReserveAllOrNothing ==
    [][\A c \in OrderIds :
        /\ (ReserveLock(c) /\ NextShort(c)) =>
              /\ tx'[c].pc = "done"
              /\ tx'[c].result.kind \in {"product_not_found", "insufficient_stock"}
              /\ reservations' = reservations
        /\ ReserveCommits(c) =>
              \A p \in DOMAIN tx[c].merged :
                  p \in Products /\ tx[c].merged[p] <= LeftFor(c, p)]_vars

\* A second product falls short after the first was validated and locked
\* and rows were deleted in the transaction.
C8_Witness ==
    \E c \in OrderIds :
        /\ tx[c].op = "reserve" /\ tx[c].pc = "lock"
        /\ tx[c].locked # {} /\ tx[c].del # {}
        /\ NextShort(c)

\* The order already holds what the request asks for.
HoldsRequest(c) == held_by(reservations, c) = tx[c].merged

\* C9: reserving again what the order already holds, with the stock and the
\* other orders' holds still covering it, succeeds, and leaves the order one
\* reservation per product, of the requested quantity, expiring ttl after
\* the second call read the clock.
C9_ReserveAgain ==
    [][\A c \in OrderIds :
        /\ (ReserveLock(c) /\ HoldsRequest(c) /\ ~NextShort(c)) =>
              tx'[c].pc \in {"lock", "insert"}
        /\ (ReserveCommits(c) /\ HoldsRequest(c)) =>
              /\ tx'[c].result.kind = "ok"
              /\ tx'[c].result.reserved_until = tx[c].now + TTL_SECONDS
              /\ RowsOf(reservations', c) =
                    {[order_id |-> c, product_id |-> p, quantity |-> tx[c].merged[p],
                      expires_at |-> tx[c].now + TTL_SECONDS, copy |-> 1] :
                        p \in DOMAIN tx[c].merged}]_vars

\* A second Reserve is about to commit for an order whose unexpired hold
\* takes the whole stock of a product.
C9_Witness ==
    \E c \in OrderIds :
        /\ tx[c].op = "reserve" /\ tx[c].pc = "insert"
        /\ HoldsRequest(c)
        /\ \E r \in RowsOf(reservations, c) :
              r.expires_at > tx[c].now /\ r.quantity = stock[r.product_id]

\* C10: a Release for an order that holds nothing succeeds, reports
\* released = 0, and changes neither the stock nor the unexpired
\* reservations of the other orders.
C10_ReleaseIdempotent ==
    [][\A c \in OrderIds :
        (Release(c) /\ RowsOf(reservations, c) = {}) =>
            /\ tx'[c].result.kind = "released"
            /\ tx'[c].result.released = 0
            /\ stock' = stock
            /\ Unexpired(reservations', now) = Unexpired(reservations, now)]_vars

\* A release has reported 0 for an order that holds nothing while another
\* order holds an unexpired reservation.
C10_Witness ==
    \E c \in OrderIds :
        /\ tx[c].op = "release" /\ tx[c].pc = "done" /\ tx[c].result.released = 0
        /\ RowsOf(reservations, c) = {}
        /\ Unexpired(reservations, now) # {}

\* Both calls of the race have returned.
RaceOver == \A c \in OrderIds : tx[c].pc = "done"

OneWinner ==
    \E w \in OrderIds :
        /\ tx[w].result.kind = "ok"
        /\ \A l \in OrderIds \ {w} :
              /\ tx[l].result.kind = "insufficient_stock"
              /\ tx[l].result.product_id = Min(Products)
              /\ tx[l].result.available = 0

\* C3 as stated: of two orders reserving the last unit of a product
\* concurrently, exactly one succeeds and the other is refused with
\* available = 0, in every interleaving.
C3_ExactlyOneWins == RaceOver => OneWinner

\* C3 as amended: the same, for calls that have returned while every hold
\* they created is unexpired.
C3_OneWinsWithinHold ==
    (RaceOver /\ \A c \in OrderIds :
                    tx[c].result.kind = "ok" => now < tx[c].result.reserved_until)
        => OneWinner

\* One order holds the lock of the product and is about to insert; the
\* other has read the clock and waits for the lock.
C3_Witness ==
    \E a, b \in OrderIds :
        /\ a # b
        /\ tx[a].pc = "insert" /\ Min(Products) \in tx[a].locked
        /\ tx[b].pc = "lock" /\ NextPid(b) = Min(Products)
\* A payment.succeeded handler at work on an order it loaded as paid.
SucceededSawPaid ==
    /\ succeededQ # <<>>
    /\ IF succ.pc = "idle" THEN orders[Head(succeededQ)].payment_status
       ELSE succ.seen.payment_status

\* C4: handling payment.succeeded for an order that is already paid changes
\* nothing: the order stays confirmed and paid, no reservation is released
\* and nothing is published.
C4_PaidAgainNoOp ==
    [][(succ' # succ /\ SucceededSawPaid) =>
          /\ orders' = orders
          /\ reservations' = reservations
          /\ orderPaidQ' = orderPaidQ]_vars

\* C6: payment.failed handled for an order whose payment has been
\* committed ends at once: the order stays as it is, paid, and neither the
\* stock nor the ledger changes.
C6_FailedAfterPaid ==
    [][(FailedRead /\ orders[Head(failedQ)].payment_status) =>
          /\ fail' = IdleHandler
          /\ orders' = orders
          /\ orders'[Head(failedQ)].payment_status
          /\ stock' = stock
          /\ reservations' = reservations]_vars

\* payment.failed is the oldest message of its queue, for an order that
\* payment.succeeded has confirmed, and the handler is free to take it.
C6_Witness ==
    /\ fail.pc = "idle"
    /\ failedQ # <<>>
    /\ orders[Head(failedQ)].payment_status
    /\ orders[Head(failedQ)].status = "confirmed"

\* The unpaid orders of a user that are a cart, a checkout hold or cancelled.
CartsOf(u) ==
    {o \in OrderRows : /\ orders[o].user_id = u
                        /\ ~orders[o].payment_status
                        /\ orders[o].status \in CartStates}

\* C7: a user has at most one unpaid order that is a cart, a checkout hold
\* or cancelled, in every reachable state.
C7_OneCartPerUser == \A u \in Users : Cardinality(CartsOf(u)) <= 1
C12_StockOnlyOnCommit ==
    [][/\ (tx' # tx) => stock' = stock
       /\ (stock' # stock) =>
             /\ orderPaidQ # <<>>
             /\ cons.pc \in {"idle", "lock"} /\ cons'.pc = "clear"
             /\ stock' = decrease_stock_batch(stock,
                             merge_items(Head(orderPaidQ).items, EmptyMap))]_vars

\* One order holds a reservation, another has released one, the clock has
\* passed the expiry of the first holds, and no stock has moved.
C12_Witness ==
    /\ \E a, b \in OrderIds :
          /\ tx[a].op = "reserve" /\ tx[a].pc = "done" /\ tx[a].result.kind = "ok"
          /\ RowsOf(reservations, a) # {}
          /\ tx[b].op = "release" /\ tx[b].pc = "done" /\ tx[b].result.released > 0
    /\ now >= TTL_SECONDS
    /\ \A p \in Products : stock[p] = MaxStock

\* The order of the oldest payment.succeeded message.
SucceededOrder == Head(succeededQ)

\* C13: payment.succeeded handled for an unpaid order in checkout hold whose
\* checkout_expires_at is ahead of the clock takes the paying branch, and
\* that branch leaves the order confirmed and paid with checkout_expires_at
\* cleared and appends one order.paid with the order id, the user id and
\* the product and quantity of every line.
C13_ValidPaymentPays ==
    [][/\ (SucceededRead /\ ~orders[SucceededOrder].payment_status
                         /\ orders[SucceededOrder].status = "checkout_pending"
                         /\ orders[SucceededOrder].checkout_expires_at > now)
            => succ'.pc = "pay"
       /\ (succ.pc = "pay" /\ succ' # succ) =>
            /\ orders'[SucceededOrder].status = "confirmed"
            /\ orders'[SucceededOrder].payment_status
            /\ orders'[SucceededOrder].checkout_expires_at = 0
            /\ orders'[SucceededOrder].items = orders[SucceededOrder].items
            /\ orderPaidQ' = Append(orderPaidQ,
                   [order_id |-> SucceededOrder,
                    user_id |-> orders[SucceededOrder].user_id,
                    items |-> items_of(orders[SucceededOrder].items)])]_vars

\* An order is confirmed and paid, its order.paid is in the queue, and the
\* handler has returned.
C13_Witness ==
    \E o \in OrderRows :
        /\ succ.pc = "idle"
        /\ orders[o].status = "confirmed" /\ orders[o].payment_status
        /\ orders[o].checkout_expires_at = 0
        /\ \E i \in 1..Len(orderPaidQ) :
              /\ orderPaidQ[i].order_id = o
              /\ orderPaidQ[i].items = items_of(orders[o].items)

\* C14: payment.succeeded handled for an unpaid order that is not in
\* checkout hold, or whose hold has expired, takes the cancelling branch;
\* once that branch has committed the order is cancelled with
\* checkout_expires_at cleared; the Release that follows may fail and the
\* handler still returns; nothing is published and no stock changes.
C14_InvalidPaymentCancels ==
    [][/\ (SucceededRead /\ ~orders[SucceededOrder].payment_status
                         /\ (\/ orders[SucceededOrder].status # "checkout_pending"
                             \/ orders[SucceededOrder].checkout_expires_at <= now))
            => succ'.pc = "cancel"
       /\ (succ.pc = "cancel" /\ ~succ.seen.payment_status /\ succ' # succ) =>
            /\ orders'[SucceededOrder].status = "cancelled"
            /\ orders'[SucceededOrder].checkout_expires_at = 0
            /\ orders'[SucceededOrder].items = orders[SucceededOrder].items
            /\ orderPaidQ' = orderPaidQ /\ stock' = stock
       /\ (succ.pc = "release" /\ ~succ.seen.payment_status /\ succ' # succ) =>
            /\ succ' = IdleHandler /\ succeededQ' = Tail(succeededQ)
            /\ reservations' \in
                  {reservations,
                   release_stock_reservation(reservations, now, SucceededOrder)}
            /\ orders' = orders
            /\ orderPaidQ' = orderPaidQ /\ stock' = stock]_vars

\* The order of the oldest payment.failed message.
FailedOrder == Head(failedQ)

\* C15: payment.failed handled for an order that is not paid takes the
\* cancelling branch; once that branch has committed the order is cancelled
\* with checkout_expires_at cleared and its lines kept; the Release that
\* follows may fail and the handler still returns.
C15_FailedPaymentCancels ==
    [][/\ (FailedRead /\ ~orders[FailedOrder].payment_status) => fail'.pc = "cancel"
       /\ (fail.pc = "cancel" /\ fail' # fail) =>
            /\ orders'[FailedOrder].status = "cancelled"
            /\ orders'[FailedOrder].checkout_expires_at = 0
            /\ orders'[FailedOrder].items = orders[FailedOrder].items
       /\ (fail.pc = "release" /\ fail' # fail) =>
            /\ fail' = IdleHandler /\ failedQ' = Tail(failedQ)
            /\ reservations' \in
                  {reservations,
                   release_stock_reservation(reservations, now, FailedOrder)}
            /\ orders' = orders]_vars

\* A step in which worker w takes a cart mutation: it goes on to the write
\* or answers at the entry.
CartStep(w) ==
    /\ work[w].pc = "idle"
    /\ work'[w] # work[w]
    /\ \/ work'[w].pc = "upsert"
       \/ work'[w].response \in {"no_active_cart", "cart_locked_during_checkout",
                                 "not_in_cart"}

\* The order is in checkout hold and the hold has not expired.
InHold(o) ==
    /\ orders[o].status = "checkout_pending"
    /\ orders[o].checkout_expires_at > now

\* The order is in checkout hold and the hold has expired.
HoldExpired(o) ==
    /\ orders[o].status = "checkout_pending"
    /\ orders[o].checkout_expires_at # 0
    /\ orders[o].checkout_expires_at <= now

\* C16: while the cart of a user is in checkout hold with checkout_expires_at
\* still ahead, a cart mutation of that user (PATCH /cart, PUT /cart/item,
\* DELETE /cart/item) is answered cart_locked_during_checkout and writes
\* nothing, and no step changes the lines of an order in that state; status
\* and checkout_expires_at stay as they are, and the total is computed from
\* the lines.
C16_LockedCartRejected ==
    [][/\ \A w \in Workers : CartStep(w) =>
             LET o == get_active_cart_by_user(orders, work'[w].user_id)
             IN (o # 0 /\ InHold(o)) =>
                   /\ work'[w].pc = "idle"
                   /\ work'[w].response = "cart_locked_during_checkout"
                   /\ work'[w].reserved_until = orders[o].checkout_expires_at
                   /\ orders' = orders
       /\ \A o \in OrderRows : InHold(o) => orders'[o].items = orders[o].items]_vars

\* A mutation has just been refused for an order that is in its hold.
C16_Witness ==
    \E w \in Workers :
        /\ work[w].pc = "idle"
        /\ work[w].response = "cart_locked_during_checkout"
        /\ InHold(work[w].order_id)
        /\ RowsOf(Unexpired(reservations, now), work[w].order_id) # {}

\* C17: a cart mutation on an order whose checkout hold has expired is let
\* in, and when it has written the order is cancelled with no
\* checkout_expires_at.
C17_ExpiredHoldReverts ==
    [][\A w \in Workers :
          /\ CartStep(w) =>
                LET o == get_active_cart_by_user(orders, work'[w].user_id)
                IN (o # 0 /\ HoldExpired(o)) =>
                      work'[w].response # "cart_locked_during_checkout"
          /\ (/\ work[w].pc = "upsert"
              /\ work'[w].response = "cart_updated"
              /\ work[w].seen.status = "checkout_pending") =>
                LET o == work[w].order_id
                IN /\ orders'[o].status = "cancelled"
                   /\ orders'[o].checkout_expires_at = 0]_vars

\* A step in which worker w takes POST /orders/checkout.
CheckoutStep(w) ==
    /\ work[w].pc = "idle"
    /\ work'[w] # work[w]
    /\ \/ work'[w].pc = "reserve"
       \/ work'[w].response \in {"checkout_pending", "checkout_no_cart", "cart_is_empty"}

\* C18: begin checkout on an order whose hold has expired leaves no row of
\* the order in the ledger and the order cancelled without
\* checkout_expires_at, and goes on to Reserve; a Reserve that is granted
\* holds the lines of the order until the time of the request plus the ttl,
\* and the commit that follows leaves the order checkout_pending with
\* checkout_expires_at at that reserved_until.
C18_ExpiredHoldRenewed ==
    [][\A w \in Workers :
          /\ CheckoutStep(w) =>
                LET o == get_active_cart_by_user(orders, work'[w].user_id)
                IN (o # 0 /\ DOMAIN orders[o].items # {} /\ HoldExpired(o)) =>
                      /\ work'[w].pc = "reserve"
                      /\ work'[w].order_id = o
                      /\ work'[w].items = orders[o].items
                      /\ RowsOf(reservations', o) = {}
                      /\ orders'[o] = [orders[o] EXCEPT !.status = "cancelled",
                                                         !.checkout_expires_at = 0]
          /\ (work[w].pc = "reserve" /\ work'[w].pc = "commit") =>
                /\ work'[w].reserved_until = now + TTL_SECONDS
                /\ held_by(reservations', work[w].order_id) = work[w].items
                /\ \A r \in RowsOf(reservations', work[w].order_id) :
                      r.expires_at = now + TTL_SECONDS
          /\ (work[w].pc = "commit" /\ work'[w] # work[w]) =>
                LET o == work[w].order_id
                IN orders'[o] = [orders[o] EXCEPT
                                    !.status = "checkout_pending",
                                    !.checkout_expires_at = work[w].reserved_until]]_vars

\* The only order there is was released and cancelled on its expired hold
\* by the request in flight (with one order no Reserve is refused, so no
\* earlier request left it cancelled), and its lines are held anew until
\* ttl from now; the commit is next.
C18_Witness ==
    \E w \in Workers :
        /\ Len(orders) = 1
        /\ work[w].pc = "commit"
        /\ work[w].order_id = 1
        /\ orders[1].status = "cancelled"
        /\ orders[1].checkout_expires_at = 0
        /\ work[w].reserved_until = now + TTL_SECONDS
        /\ held_by(Unexpired(reservations, now), 1) = orders[1].items

\* C19: begin checkout on an order in checkout hold with checkout_expires_at
\* still ahead answers with the id of that order and its
\* checkout_expires_at, and ends there: no Reserve or Release follows, and
\* the orders, the ledger and the stock are as before.
C19_OpenHoldReused ==
    [][\A w \in Workers : CheckoutStep(w) =>
          LET o == get_active_cart_by_user(orders, work'[w].user_id)
          IN (o # 0 /\ DOMAIN orders[o].items # {} /\ InHold(o)) =>
                /\ work'[w].pc = "idle"
                /\ work'[w].response = "checkout_pending"
                /\ work'[w].order_id = o
                /\ work'[w].reserved_until = orders[o].checkout_expires_at
                /\ orders' = orders
                /\ reservations' = reservations
                /\ stock' = stock]_vars

\* A checkout has just been answered with the hold the order already had.
C19_Witness ==
    \E w \in Workers :
        /\ work[w].pc = "idle"
        /\ work[w].response = "checkout_pending"
        /\ InHold(work[w].order_id)
        /\ work[w].reserved_until = orders[work[w].order_id].checkout_expires_at
        /\ work[w].reserved_until < now + TTL_SECONDS
        /\ held_by(Unexpired(reservations, now), work[w].order_id)
              = orders[work[w].order_id].items

\* C20: begin checkout on a cart without lines is refused and ends there:
\* no reservation is made, and the orders and the ledger are as before.
C20_EmptyCartRefused ==
    [][\A w \in Workers : CheckoutStep(w) =>
          LET o == get_active_cart_by_user(orders, work'[w].user_id)
          IN (o # 0 /\ DOMAIN orders[o].items = {}) =>
                /\ work'[w].pc = "idle"
                /\ work'[w].response = "cart_is_empty"
                /\ orders' = orders
                /\ reservations' = reservations]_vars

\* A checkout has just been refused for a cart whose last line was deleted.
C20_Witness ==
    \E w \in Workers :
        /\ work[w].pc = "idle"
        /\ work[w].response = "cart_is_empty"
        /\ DOMAIN orders[work[w].order_id].items = {}
        /\ RowsOf(reservations, work[w].order_id) = {}

\* What the other orders hold of product pid past the time t, purged or not.
LiveOthers(c, pid, t) ==
    SumQuantity({r \in reservations : /\ r.product_id = pid
                                      /\ r.order_id # c
                                      /\ r.expires_at > t})

\* C21: a Reserve is refused for a product only when the stock less the
\* holds of other orders that end after the time the Reserve read falls
\* short of what it asks; a hold with expires_at at or before that time takes
\* nothing from what is available, whether its row is still in the table or
\* not.
C21_ExpiredHoldFreesStock ==
    [][\A c \in OrderIds :
          (/\ tx[c].op = "reserve" /\ tx[c].pc = "lock"
           /\ tx'[c] # tx[c]
           /\ NextPid(c) \in Products) =>
             LET pid == NextPid(c)
                 free == stock[pid] - LiveOthers(c, pid, tx[c].now)
             IN IF free >= tx[c].merged[pid]
                THEN /\ tx'[c].pc \in {"lock", "insert"}
                     /\ pid \in tx'[c].locked
                ELSE /\ tx'[c].pc = "done"
                     /\ tx'[c].result.kind = "insufficient_stock"
                     /\ tx'[c].result.available = free]_vars

\* A Reserve has been granted the whole stock of a product while the row of
\* another order's hold on it, expired by the time the Reserve read, is
\* still in the table.
C21_Witness ==
    \E c \in OrderIds : \E r \in reservations :
        /\ tx[c].op = "reserve" /\ tx[c].pc = "insert"
        /\ r.order_id # c
        /\ r.expires_at <= tx[c].now
        /\ r.product_id \in tx[c].locked
        /\ tx[c].merged[r.product_id] = stock[r.product_id]

\* The product of the scenario's cart, once the order exists.
ScenarioProduct == CHOOSE p \in Products : p \in DOMAIN orders[1].items

\* Stock less the unexpired holds of the product.
AvailableNow(p) ==
    stock[p] - SumQuantity({r \in Unexpired(reservations, now) : r.product_id = p})

\* C22: with a product at stock 5 and a cart of that product times 2, while
\* the hold of the checkout stands and nothing has been committed the hold is
\* of 2, the stock is 5 and 3 are available; once the order.paid that follows
\* a payment.succeeded inside the window has been processed the stock is 3,
\* the order has no reservations and the order is paid.
C22_CheckoutToPaid ==
    Len(orders) >= 1 =>
        /\ (RowsOf(Unexpired(reservations, now), 1) # {} /\ commits[1] = 0) =>
              /\ held_by(reservations, 1) = [p \in {ScenarioProduct} |-> ScenarioQty]
              /\ stock[ScenarioProduct] = ScenarioStock
              /\ AvailableNow(ScenarioProduct) = ScenarioStock - ScenarioQty
        /\ (commits[1] >= 1 /\ cons.pc \in {"ack", "idle"}) =>
              /\ stock[ScenarioProduct] = ScenarioStock - ScenarioQty
              /\ \A p \in Products \ {ScenarioProduct} : stock[p] = ScenarioStock
              /\ RowsOf(reservations, 1) = {}
              /\ orders[1].payment_status
              /\ orders[1].status = "confirmed"
              /\ orders[1].checkout_expires_at = 0

\* The scenario has run to its end: the order is paid, its order.paid has
\* been processed and acknowledged, and 2 are gone from the stock.
C22_Witness ==
    /\ Len(orders) = 1
    /\ orders[1].payment_status
    /\ commits[1] = 1
    /\ cons.pc = "idle" /\ orderPaidQ = <<>>
    /\ succ.pc = "idle" /\ succeededQ = <<>>
    /\ stock[ScenarioProduct] = ScenarioStock - ScenarioQty
    /\ RowsOf(reservations, 1) = {}

\* The messages of a queue, as a set.
Range(q) == {q[i] : i \in 1..Len(q)}

\* What C23 says of one delivery: the callback runs once, answers ack after
\* a handler that returned and nack after one that raised or a body that
\* did not decode, and the answer that reaches the broker takes the message
\* off the queue for good.
OneDelivery ==
    /\ (link.pc = "handle" /\ link'.pc # link.pc) =>
          /\ handled' = [handled EXCEPT ![link.msg.id] = @ + 1]
          /\ link'.pc = IF link.msg.body = "returns" THEN "ack" ELSE "nack"
    /\ (link.pc # "handle" \/ link'.pc = link.pc) => handled' = handled
    /\ (link.pc \in {"ack", "nack"} /\ link.alive /\ link'.pc # link.pc) =>
          /\ link.msg \notin Range(broker'.ready) \cup Range(broker'.unacked)
          /\ link'.pc = "wait"

\* C23 as stated: one delivery as above, and a message whose handler raised
\* (or whose body did not decode) is not delivered a second time.
C23_RaisedNeverRedelivered ==
    [][/\ OneDelivery
       /\ (link.pc = "handle" /\ link.msg.body # "returns") =>
             handled[link.msg.id] = 0]_vars

\* C23, amended: one delivery as above; a message comes onto the queue only
\* by being published or, delivered and not yet answered, by the loss of the
\* connection, and it is then delivered again also if its handler had
\* raised: a message is handled at most once more than connections were lost.
C23_DroppedOnceAnswered ==
    [][/\ OneDelivery
       /\ \A m \in Range(broker'.ready) \ Range(broker.ready) :
             \/ m.id = published + 1 /\ published' = m.id
             \/ m \in Range(broker.unacked) /\ broker.up /\ ~broker'.up
       /\ \A id \in MessageIds : handled'[id] <= 1 + faults']_vars

\* A message whose handler raised has come back after a lost connection,
\* its handler has raised again, and the nack is about to go out on a live
\* connection.
C23_Witness ==
    /\ link.pc = "nack" /\ link.alive
    /\ link.msg.body = "raises"
    /\ handled[link.msg.id] = 2
    /\ link.msg \in Range(broker.unacked)

\* What C24 says of the loop: it sleeps the whole backoff after an
\* exception, connects again only from there, and comes back to consuming.
LoopKeepsRunning ==
    /\ [][/\ (link'.pc = "sleep" /\ link.pc # "sleep") =>
                link'.left = BACKOFF_SECONDS
          /\ (link'.pc = "sleep" /\ link.pc = "sleep" /\ link'.left # link.left) =>
                link'.left = link.left - 1
          /\ (link'.pc = "connect" /\ link.pc # "connect") =>
                link.pc = "sleep" /\ link.left = 0
          /\ (link.pc = "connect" /\ link'.pc # link.pc /\ broker.up) =>
                link'.pc = "wait" /\ broker'.declared]_vars
    /\ (link.pc = "sleep") ~> (link.pc = "wait" /\ link.alive)

\* C24 as stated: the loop keeps running, and every message published
\* while the broker could be reached is in the end delivered.
C24_PublishedIsDelivered ==
    /\ LoopKeepsRunning
    /\ \A id \in MessageIds : (published >= id) ~> (handled[id] >= 1)

\* C24, amended: the loop keeps running, and every message the broker has
\* put on the queue (published after the queue was first declared and bound)
\* is in the end delivered.
C24_QueuedIsDelivered ==
    /\ LoopKeepsRunning
    /\ \A id \in MessageIds :
          (\E m \in Range(broker.ready) : m.id = id) ~> (handled[id] >= 1)

\* After two lost connections the consumer is consuming again and has taken
\* a message that was published in between.
C24_Witness ==
    /\ faults = MaxFaults
    /\ link.pc = "handle" /\ link.alive
    /\ handled[link.msg.id] = 0
    /\ broker.up

\* The order a handler h is on (or, idle, would load from the head of its
\* queue q) is cancelled and unpaid as the handler has or would have it.
SawCancelled(h, q) ==
    /\ q # <<>>
    /\ LET seen == IF h.pc = "idle" THEN columns_of(orders[Head(q)]) ELSE h.seen
       IN seen = Cancelled

\* C25: handling payment.succeeded or payment.failed for an order that is
\* cancelled and unpaid when the handler loads it writes nothing to any
\* order (status cancelled, payment_status false, no checkout_expires_at and
\* the lines all stay), takes the cancelling branch, publishes no order.paid
\* and changes no stock.
C25_CancelledAgainNoOp ==
    [][/\ (succ' # succ /\ SawCancelled(succ, succeededQ)) =>
             /\ orders' = orders
             /\ succ'.pc # "pay"
             /\ orderPaidQ' = orderPaidQ
             /\ stock' = stock
       /\ (fail' # fail /\ SawCancelled(fail, failedQ)) =>
             /\ orders' = orders
             /\ orderPaidQ' = orderPaidQ
             /\ stock' = stock]_vars

\* payment.succeeded has been handled for an order it found cancelled: the
\* handler has committed and is at its release, and the order is cancelled,
\* unpaid, without checkout_expires_at and with its lines.
C25_Witness ==
    /\ succ.pc = "release"
    /\ succ.seen = Cancelled
    /\ columns_of(orders[Head(succeededQ)]) = Cancelled
    /\ DOMAIN orders[Head(succeededQ)].items # {}
    /\ orderPaidQ = <<>>
    /\ \A p \in Products : stock[p] = MaxStock

\* Product p cannot be reserved for order c's Reserve as things stand: it
\* does not exist, or its stock less the other orders' unexpired holds is
\* below the merged quantity asked.
ShortFor(c, p) ==
    \/ p \notin Products
    \/ stock[p] - LiveOthers(c, p, tx[c].now) < tx[c].merged[p]

\* C26: a Reserve that fails answers with the kind of the failure and its
\* detail, never with a bare message: the product is the lowest id of the
\* request that cannot be reserved; a missing one is answered
\* product_not_found with that id, a short one insufficient_stock with that
\* id, available = stock less the unexpired holds of other orders, and
\* requested = the merged quantity.
C26_FailureNamesFirstShort ==
    [][\A c \in OrderIds :
          (/\ tx[c].op = "reserve" /\ tx[c].pc = "lock"
           /\ tx'[c].pc = "done") =>
             LET short == {p \in DOMAIN tx[c].merged : ShortFor(c, p)}
                 first == CHOOSE p \in short : \A q \in short : p <= q
             IN /\ short # {}
                /\ tx'[c].result =
                      IF first \notin Products
                      THEN [NoResult EXCEPT !.kind = "product_not_found",
                                            !.product_id = first]
                      ELSE [NoResult EXCEPT
                              !.kind = "insufficient_stock",
                              !.product_id = first,
                              !.available = stock[first]
                                              - LiveOthers(c, first, tx[c].now),
                              !.requested = tx[c].merged[first]]]_vars

\* A Reserve has been refused for product 2 with the numbers of the shortage
\* in the answer: less is available than the stock, because another order
\* holds some of it, and more than that was asked.
C26_Witness ==
    \E c \in OrderIds :
        /\ tx[c].op = "reserve" /\ tx[c].pc = "done"
        /\ tx[c].result.kind = "insufficient_stock"
        /\ tx[c].result.product_id = 2
        /\ tx[c].result.requested > tx[c].result.available
        /\ tx[c].result.available > 0
        /\ tx[c].result.available < stock[2]

\* The merged quantities of the order.paid message the consumer is at.
PaidMerged == merge_items(Head(orderPaidQ).items, EmptyMap)

\* C27: the decrement of an order.paid message is all or nothing: a step of
\* the consumer changes the stock only if every product of the message
\* exists with at least the quantity asked, and then every one of them goes
\* down by its quantity; a message that fails at any product is dropped
\* with every stock as it was.
C27_DecrementAllOrNothing ==
    [][(cons.pc \in {"idle", "lock"} /\ cons' # cons) =>
          LET enough == \A p \in DOMAIN PaidMerged :
                            p \in Products /\ stock[p] >= PaidMerged[p]
          IN /\ stock' # stock =>
                  /\ enough
                  /\ \A p \in Products :
                        stock'[p] = IF p \in DOMAIN PaidMerged
                                    THEN stock[p] - PaidMerged[p] ELSE stock[p]
             /\ ~enough => /\ stock' = stock
                            /\ cons'.pc \in {"idle", "lock"}
             /\ orderPaidQ' # orderPaidQ => stock' = stock]_vars

\* The consumer has found enough of the first product of a message for two
\* products and is about to find the second one short; no stock has moved.
C27_Witness ==
    /\ cons.pc = "lock"
    /\ orderPaidQ # <<>>
    /\ DOMAIN PaidMerged = Products
    /\ cons.locked = {Min(Products)}
    /\ \E p \in Products \ cons.locked : stock[p] < PaidMerged[p]
    /\ commits[Head(orderPaidQ).order_id] = 0

\* A payment.failed event for order o is waiting, the handler has not yet
\* committed for it, and o is not paid.
FailedPending(o) ==
    /\ \E i \in 1..Len(failedQ) : failedQ[i] = o /\ (i = 1 => fail.pc # "release")
    /\ o \in OrderRows
    /\ ~orders[o].payment_status

\* C28: every payment.failed event published for an existing unpaid order is
\* eventually handled by the order service: the order comes to be cancelled,
\* unless it was paid in the meantime.
C28_FailedEventuallyHandled ==
    \A o \in OrderIds :
        FailedPending(o) ~>
            /\ o \in OrderRows
            /\ orders[o].status = "cancelled" \/ orders[o].payment_status

\* C29: every order that becomes paid eventually has its quantities taken
\* out of the stock by a committed decrement and has no reservation rows
\* left, also when its hold, or another order's, runs out between the
\* handling of payment.succeeded and the handling of order.paid.
C29_PaidEventuallySettled ==
    \A o \in OrderIds :
        (o \in OrderRows /\ orders[o].payment_status /\ commits[o] = 0) ~>
            (commits[o] >= 1 /\ RowsOf(reservations, o) = {})

\* The table has at most one line per order and product, each of a
\* quantity above 0.
LinesOk(rows) ==
    /\ \A i \in 1..Len(rows) : rows[i].quantity > 0
    /\ \A i, j \in 1..Len(rows) :
          (rows[i].order_id = rows[j].order_id /\ rows[i].product_id = rows[j].product_id)
              => i = j

\* The lines of order o as the map from product id to quantity that the
\* carts of the order service are written with.
CartMap(rows, o) ==
    [p \in {rows[i].product_id : i \in {j \in 1..Len(rows) : rows[j].order_id = o}} |->
        rows[existing_by_product_id(rows, o, p)].quantity]

\* C30: the lines of an order are upserted by product id: after every
\* upsert an order has at most one line per product and every line has a
\* quantity above 0; an upsert with quantity 0 takes the line of the
\* product away if there is one and changes nothing if there is none; an
\* upsert with a quantity above 0 leaves exactly one line of that quantity
\* for the product; the other lines stay as they were, and the cart read as
\* a map from product to quantity changes as upsert_cart_items on maps says.
C30_LinesUpsertedByProduct ==
    [][\A w \in OneWorker :
          (work'[w] # work[w] \/ order_items' # order_items) =>
             LET o == work'[w].order_id
                 pid == work'[w].product_id
                 qty == work'[w].quantity
                 Mine(r) == r.order_id = o /\ r.product_id = pid
                 Other(r) == ~Mine(r)
             IN /\ LinesOk(order_items')
                /\ SelectSeq(order_items', Other) = SelectSeq(order_items, Other)
                /\ SelectSeq(order_items', Mine) =
                      IF qty = 0 THEN <<>>
                      ELSE <<[order_id |-> o, product_id |-> pid, quantity |-> qty]>>
                /\ (qty = 0 /\ SelectSeq(order_items, Mine) = <<>>)
                      => order_items' = order_items
                /\ CartMap(order_items', o) =
                      upsert_cart_items(CartMap(order_items, o), pid, qty)]_vars

\* The last upsert took a line out of a cart that keeps a line for another
\* product, while the other cart has lines of its own.
C30_Witness ==
    \E w \in OneWorker :
        /\ work[w].response = "cart_updated"
        /\ work[w].quantity = 0
        /\ \A i \in 1..Len(order_items) :
              ~(/\ order_items[i].order_id = work[w].order_id
                /\ order_items[i].product_id = work[w].product_id)
        /\ \E i \in 1..Len(order_items) : order_items[i].order_id = work[w].order_id
        /\ Len(order_items) >= 3

\* What a list of items asks of product p: the sum over its items.
Asked(items, p) ==
    SumQuantity({[quantity |-> items[i].quantity, at |-> i] :
                    i \in {j \in 1..Len(items) : items[j].product_id = p}})

\* The rows of order c without the mark that tells equal rows apart.
PlainRowsOf(rows, c) ==
    {[order_id |-> r.order_id, product_id |-> r.product_id,
      quantity |-> r.quantity, expires_at |-> r.expires_at] : r \in RowsOf(rows, c)}

\* C31: a Reserve succeeds exactly when every product it asks for exists
\* and the quantity asked of it, duplicates summed, is at most the stock
\* less the other orders' unexpired holds; when it succeeds the order has
\* one row per product asked, of the summed quantity, expiring at the time
\* the call read plus the ttl.
C31_ReserveIffCovered ==
    [][\A c \in OrderIds :
          LET t == tx[c]
              covered == \A p \in DOMAIN t.merged :
                             /\ p \in Products
                             /\ t.merged[p] <= stock[p] - LiveOthers(c, p, t.now)
          IN /\ (t.pc \in {"idle", "done"} /\ tx'[c].pc = "lock") =>
                   \A items \in ItemLists :
                       LET m == merge_items(items, EmptyMap)
                       IN /\ DOMAIN m = {items[i].product_id : i \in 1..Len(items)}
                          /\ \A p \in DOMAIN m : m[p] = Asked(items, p)
             /\ (t.op = "reserve" /\ t.pc \in {"lock", "insert"} /\ tx'[c].pc = "done") =>
                   /\ tx'[c].result.kind = "ok" <=> covered
                   /\ covered =>
                         /\ tx'[c].result.reserved_until = t.now + TTL_SECONDS
                         /\ PlainRowsOf(reservations', c) =
                               {[order_id |-> c, product_id |-> p,
                                 quantity |-> t.merged[p],
                                 expires_at |-> t.now + TTL_SECONDS] : p \in DOMAIN t.merged}
                         /\ Cardinality(RowsOf(reservations', c)) =
                               Cardinality(DOMAIN t.merged)]_vars

\* A Reserve that named a product twice has succeeded: the order holds one
\* row of quantity 2 for it, while another order holds a live row as well.
C31_Witness ==
    \E c \in OrderIds : \E r \in RowsOf(reservations, c) :
        /\ tx[c].op = "reserve" /\ tx[c].pc = "done" /\ tx[c].result.kind = "ok"
        /\ r.quantity = 2
        /\ r.expires_at = tx[c].result.reserved_until
        /\ \E q \in reservations : q.order_id # c /\ q.expires_at > now

\* The step commits a Reserve of order c.
ReserveCommitted(c) ==
    tx[c].op = "reserve" /\ tx[c].pc = "insert" /\ tx'[c].pc = "done"

\* The step is a Release of order c.
Released(c) ==
    /\ tx[c].pc \in {"idle", "done"}
    /\ tx'[c].op = "release" /\ tx'[c].pc = "done"
    /\ \/ tx'[c] # tx[c]
       \/ tx' = tx /\ cons' = cons /\ reservations' # reservations

\* The step is the delete that ends the commit of the order.paid at hand.
CommitCleared ==
    /\ cons.pc = "clear" /\ cons'.pc = "ack"
    /\ \A r \in reservations \ reservations' : r.order_id = Head(orderPaidQ).order_id

\* The rows the step takes out of the table that had expired by now.
ExpiredRemoved == {r \in reservations \ reservations' : r.expires_at <= now}

\* The passage of time alone changes neither the table nor the orders.
TimeAloneChangesNothing ==
    now' # now => (reservations' = reservations /\ orders' = orders /\ stock' = stock)

\* C32 as stated: time alone deletes nothing and changes no order; an
\* expired row leaves the table only in a successful Reserve or a Release,
\* and after such a call no row with expires_at at or before the call's
\* time is left.
C32_PurgedOnlyByReserveOrRelease ==
    [][/\ TimeAloneChangesNothing
       /\ ExpiredRemoved # {} => \E c \in OrderIds : ReserveCommitted(c) \/ Released(c)
       /\ \A c \in OrderIds :
             /\ ReserveCommitted(c) =>
                   \A r \in reservations' : r.expires_at > tx[c].now
             /\ Released(c) => \A r \in reservations' : r.expires_at > now]_vars

\* C32, amended: time alone deletes nothing and changes no order; an
\* expired row leaves the table only in a successful Reserve, in a Release,
\* or in the commit of the order it belongs to; a Reserve deletes every row
\* that is in the table with expires_at at or before the time it reads, and
\* none of them is left when it commits; after a Release no such row is
\* left.
C32_PurgedLazily ==
    [][/\ TimeAloneChangesNothing
       /\ ExpiredRemoved # {} =>
             \/ \E c \in OrderIds : ReserveCommitted(c) \/ Released(c)
             \/ CommitCleared
       /\ \A c \in OrderIds :
             /\ (tx[c].pc \in {"idle", "done"} /\ tx'[c].op = "reserve"
                                               /\ tx'[c].pc = "lock") =>
                   /\ tx'[c].now = now
                   /\ {r \in reservations : r.expires_at <= now} \subseteq tx'[c].del
             /\ (tx[c].op = "reserve" /\ tx[c].pc \in {"lock", "insert"}) =>
                   IF ReserveCommitted(c)
                   THEN \A r \in reservations' \cap tx[c].del : r.expires_at > tx[c].now
                   ELSE /\ tx[c].del \subseteq reservations'
                        /\ tx'[c].pc # "done" => tx'[c].del = tx[c].del
             /\ Released(c) => \A r \in reservations' : r.expires_at > now]_vars

\* A Reserve of one order has committed after the hold of another order ran
\* out: that order is unpaid, its own last call was the Reserve that made
\* the hold, and its rows are gone.
C32_Witness ==
    \E c, d \in OrderIds :
        /\ c # d
        /\ tx[c].op = "reserve" /\ tx[c].pc = "done" /\ tx[c].result.kind = "ok"
        /\ tx[d].op = "reserve" /\ tx[d].pc = "done" /\ tx[d].result.kind = "ok"
        /\ ~paid[d]
        /\ tx[d].result.reserved_until + TTL_SECONDS <= tx[c].result.reserved_until
        /\ RowsOf(reservations, d) = {}
        /\ RowsOf(reservations, c) # {}

\* The sum of unit price times quantity over the lines of an order row.
RECURSIVE LinesTotalOver(_, _)
LinesTotalOver(row, ps) ==
    IF ps = {} THEN 0
    ELSE LET p == CHOOSE q \in ps : TRUE
         IN row.prices[p] * row.items[p] + LinesTotalOver(row, ps \ {p})

LinesTotal(row) == LinesTotalOver(row, DOMAIN row.items)

\* The step ends a cart mutation: create_order or upsert_cart_items commits.
CartMutationEnds ==
    \E w \in DOMAIN work : work[w].pc \in {"create", "upsert", "commit"}
                            /\ work'[w].pc = "idle"

\* C33: after every step, and so after every cart mutation, every line of
\* every order has a unit price and the order's total_amount is the sum
\* over its lines of unit price times quantity; a step that is not the end
\* of a cart mutation (checkout, the payment handlers, everything else)
\* leaves the lines, their prices and the total of every order as they were.
C33_TotalIsSumOfLines ==
    [][ /\ \A o \in DOMAIN orders' :
              /\ DOMAIN orders'[o].prices = DOMAIN orders'[o].items
              /\ orders'[o].total_amount = LinesTotal(orders'[o])
        /\ ~CartMutationEnds =>
              /\ DOMAIN orders' = DOMAIN orders
              /\ \A o \in DOMAIN orders :
                    /\ orders'[o].items = orders[o].items
                    /\ orders'[o].prices = orders[o].prices
                    /\ orders'[o].total_amount = orders[o].total_amount ]_vars

\* The ledger holds an unexpired row of the order for the line of product p
\* with the line's quantity.
LineHeld(o, p) ==
    \E r \in RowsOf(reservations, o) :
        /\ r.product_id = p
        /\ r.quantity = orders[o].items[p]
        /\ r.expires_at > now

\* C34: whenever an order is in checkout hold with checkout_expires_at still
\* ahead, the ledger holds an unexpired reservation for every line of the
\* order with the line's quantity, whatever the two payment handlers and
\* their best-effort Release do meanwhile.
C34_HoldBackedByLedger ==
    \A o \in OrderRows : InHold(o) => \A p \in DOMAIN orders[o].items : LineHeld(o, p)

\* The order.paid events published for the order.
PaidEventsFor(o) == {i \in 1..Len(orderPaidQ) : orderPaidQ[i].order_id = o}

\* Both consumers are between messages and nothing waits in their queues.
PaymentsSettled ==
    /\ succ.pc = "idle" /\ fail.pc = "idle"
    /\ succeededQ = <<>> /\ failedQ = <<>>

\* C35: a payment.succeeded and a payment.failed for the same order, handled
\* by their two consumers in any interleaving, leave the order consistent:
\* paid (payment_status set, status confirmed) with an order.paid published,
\* or not paid with none published; it is not left cancelled with an
\* order.paid published.
C35_ConcurrentOutcomeConsistent ==
    \A o \in OrderRows :
        (PaymentsSettled /\ PaidEventsFor(o) # {}) => orders[o].status # "cancelled"

\* C36: for each order at most one order.paid event is ever published,
\* however often the order is checked out and whichever payment.succeeded
\* and payment.failed events, repeated or out of order, are handled.
C36_OrderPaidAtMostOnce ==
    \A o \in OrderRows : Cardinality(PaidEventsFor(o)) <= 1

\* The products and quantities of an order.paid event, and those of the
\* rows the ledger holds for an order.
EventQuantities(e) == {<<e.items[i].product_id, e.items[i].quantity>> : i \in DOMAIN e.items}
HeldQuantities(o) == {<<r.product_id, r.quantity>> : r \in RowsOf(reservations, o)}

\* C37: when an order becomes paid, the products and quantities published
\* in its order.paid event are those of the reservation rows its checkout
\* created, also when a cart mutation that passed the editable check before
\* the checkout writes its line after it.
C37_PaidQuantitiesAreReserved ==
    [][Len(orderPaidQ') = Len(orderPaidQ) + 1 =>
          LET e == orderPaidQ'[Len(orderPaidQ')]
          IN EventQuantities(e) = HeldQuantities(e.order_id)]_vars

\* What the ledger can give order o of product p at time t: the stock less
\* the unexpired holds of the other orders.
FreeFor(o, p, t) ==
    stock[p] - SumQuantity({r \in reservations : /\ r.product_id = p
                                                  /\ r.order_id # o
                                                  /\ r.expires_at > t})

\* The Reserve of the checkout worker w has in flight will be refused.
ReserveWillFail(w) ==
    /\ work[w].pc = "reserve"
    /\ \E p \in DOMAIN work[w].items : FreeFor(work[w].order_id, p, now) < work[w].items[p]

\* C38: when the Reserve of begin checkout is refused the request ends
\* there, the order is not in checkout hold and has no reservation: an order
\* that was pending or cancelled has the status it had, an order whose hold
\* had expired is cancelled and the rows of the stale hold are gone, and
\* checkout_expires_at is empty in either case.
C38_RefusedCheckoutHoldsNothing ==
    [][\A w \in Workers :
          /\ ReserveWillFail(w) => (work'[w] # work[w] => work'[w].pc = "idle")
          /\ (work[w].pc = "reserve" /\ work'[w].pc = "idle") =>
                LET o == work[w].order_id
                IN /\ ReserveWillFail(w)
                   /\ orders' = orders
                   /\ orders'[o].status = work[w].seen.status
                   /\ orders'[o].status \in {"pending", "cancelled"}
                   /\ orders'[o].checkout_expires_at = 0
                   /\ RowsOf(reservations', o) = {}
          /\ CheckoutStep(w) =>
                LET o == get_active_cart_by_user(orders, work'[w].user_id)
                IN (o # 0 /\ work'[w].pc = "reserve") =>
                      /\ work'[w].seen.status =
                            IF HoldExpired(o) THEN "cancelled" ELSE orders[o].status
                      /\ orders'[o].status = work'[w].seen.status
                      /\ RowsOf(reservations', o) = {}]_vars

\* An order whose hold expired was checked out again while another order
\* held every unit of its product: the request has ended, the order is
\* cancelled without checkout_expires_at and nothing is reserved for it.
C38_Witness ==
    \E o \in OrderRows :
        /\ \A w \in Workers : work[w].pc = "idle"
        /\ orders[o].status = "cancelled"
        /\ orders[o].checkout_expires_at = 0
        /\ RowsOf(reservations, o) = {}
        /\ \E p \in DOMAIN orders[o].items : FreeFor(o, p, now) < orders[o].items[p]

\* The step ends the Reserve of order c in a refusal.
ReserveRefused(c) ==
    /\ tx[c].op = "reserve" /\ tx[c].pc # "done"
    /\ tx'[c].pc = "done"
    /\ tx'[c].result.kind # "ok"

\* C39: a Reserve that is refused leaves the ledger as it was before the
\* call: the rows the call had deleted at its start, the order's own and
\* the expired ones, are all in the table again, no row was added, and the
\* stock is the same; so what the order held unexpired it still holds.
C39_RefusedReserveRestoresLedger ==
    [][\A c \in OrderIds : ReserveRefused(c) =>
          /\ tx[c].del \subseteq reservations'
          /\ reservations' \subseteq reservations
          /\ reservations \subseteq reservations'
          /\ stock' = stock
          /\ held_by(Unexpired(reservations', tx[c].now), c)
                = held_by(Unexpired(reservations \cup tx[c].del, tx[c].now), c)]_vars

\* A re-reserve of an order has just been refused for want of stock, and
\* the hold the order had before, still unexpired, is in the ledger.
C39_Witness ==
    \E c \in OrderIds :
        /\ tx[c].op = "reserve" /\ tx[c].pc = "done"
        /\ tx[c].result.kind = "insufficient_stock"
        /\ Unexpired(RowsOf(reservations, c), now) # {}

\* The order.paid commit at hand has committed its decrement and has not
\* yet deleted the rows of its order, which is not c; one of the rows holds
\* product p past the time t.
HalfCommitted(c, p, t) ==
    /\ cons.pc = "clear"
    /\ Head(orderPaidQ).order_id # c
    /\ \E r \in reservations : /\ r.order_id = Head(orderPaidQ).order_id
                               /\ r.product_id = p
                               /\ r.expires_at > t

\* C40: the commit of an order.paid is atomic for a concurrent Reserve: no
\* Reserve of another order computes what is available of a product while
\* the paid order's quantity is already off the stock and the paid order's
\* unexpired rows of that product are still in the table.
C40_CommitAtomicForReserve ==
    [][\A c \in OrderIds :
          (ReserveLock(c) /\ NextPid(c) \in Products) =>
              ~HalfCommitted(c, NextPid(c), tx[c].now)]_vars
====
